---- MODULE Spec2Model ----
(***************************************************************************)
(* Verification model of the entity-linking core of DeepPavlov:            *)
(*   deeppavlov/models/entity_linking/entity_linking_sep.py                *)
(*       NerChunkModel, EntityLinkerSep                                    *)
(*   deeppavlov/models/entity_linking/entity_linking.py                    *)
(*       NerChunker, EntityLinker                                          *)
(*                                                                         *)
(* Conventions.  A Python list is a sequence, a Python tuple is a sequence *)
(* or a record, a dict is a sequence of key/value records in insertion     *)
(* order.  A mention text is the sequence of its space-separated words     *)
(* (the value of entity_substr.split(' ')).  Scores are integers: fused    *)
(* substring scores and similarities count units of 1/Scale, rounded       *)
(* scores (round(x, 2)) count hundredths.  Loop counters that Python       *)
(* numbers from 0 keep their Python values.                                *)
(***************************************************************************)
EXTENDS Integers, Sequences, FiniteSets, TLC

VARIABLES
    \* ---- EntityLinkerSep: configuration (fields set by __init__/load) ----
    num_entities_to_return,   \* self.num_entities_to_return
    use_descriptions,         \* self.use_descriptions
    word_to_idlist,           \* self.word_to_idlist (name of the loaded index)
    entity_ranker,            \* self.entity_ranker (name of the rerank table)
    num_entities_for_bert_ranking,  \* self.num_entities_for_bert_ranking
    \* ---- EntityLinkerSep.__call__: arguments and locals ----
    lpc,                      \* position in __call__
    entity_substr_batch,      \* argument: per document, the mention texts
    tags_batch,               \* argument: per document, the mention tags
    entity_offsets_batch,     \* argument: per document, the mention offsets
    nf_batch,                 \* the nf lists, one record per document
    fnd_batch,                \* the fnd lists, one record per document
    words_batch,              \* link_entities: entity_substr_batch, the kept words
    entries_batch,            \* link_entities: indices, word_counts, word_tags, flags
    DI_batch,                 \* link_entities: D_batch and I_batch
    doc_i,                    \* position of the per-document loop of link_entities
    index,                    \* link_entities' loop variable `index` (leaks between documents)
    fnd_entity_ids_batch,     \* link_entities: entity_ids_batch
    fnd_conf_batch,           \* link_entities: conf_batch
    entities_scores_list,     \* link_entities: entities_scores_list, of the last document ranked
    ranker_calls,             \* requests received by entity_ranker.batch_rank_rels
    out,                      \* value returned by __call__
    exc                       \* exception that left __call__, or "none"

lnkVars == <<num_entities_to_return, use_descriptions, word_to_idlist, entity_ranker,
             num_entities_for_bert_ranking,
             lpc, entity_substr_batch, tags_batch, entity_offsets_batch, nf_batch,
             fnd_batch, words_batch, entries_batch, DI_batch, doc_i, index, fnd_entity_ids_batch, fnd_conf_batch, entities_scores_list,
             ranker_calls, out, exc>>

VARIABLES
    \* ---- EntityLinkerSep.rank_by_description: one call ----
    rbd_pc,                   \* position in rank_by_description
    rbd_n_ret,                \* self.num_entities_to_return of the call
    rbd_args,                 \* the zipped arguments, one record per mention
    rbd_i,                    \* the mentions the loop of line 723 has finished
    entities_with_scores,     \* local entities_with_scores
    top_entities,             \* local top_entities
    top_conf,                 \* local top_conf
    entity_ids_list,          \* local entity_ids_list
    conf_list                 \* local conf_list

rbdVars == <<rbd_pc, rbd_n_ret, rbd_args, rbd_i, entities_with_scores, top_entities,
             top_conf, entity_ids_list, conf_list>>

VARIABLES
    \* ---- NerChunker: configuration and one call of __call__ ----
    max_seq_len,              \* self.max_seq_len
    max_chunk_len,            \* self.max_chunk_len
    batch_size,               \* self.batch_size
    docs_batch,               \* argument docs_batch
    cpc,                      \* position in NerChunker.__call__
    doc_n,                    \* local n: the documents the loop of line 90 has finished
    sentences,                \* local sentences of the current document
    sent_i,                   \* the sentences the loop of line 102 has finished
    sentence_chunks,          \* local sentence_chunks
    chunk_i,                  \* the pieces the loop of line 132 has finished
    text,                     \* local text
    cur_len,                  \* local cur_len
    cur_chunk_len,            \* local cur_chunk_len
    start,                    \* local start
    lists_heap,               \* the list objects made for sentences_offsets_list
                              \* and sentences_list, in order of creation
    sentences_offsets_list,   \* the object sentences_offsets_list and
                              \* sentences_list are bound to
    text_batch,               \* local text_batch
    nums_batch,               \* local nums_batch
    sentences_offsets_batch,  \* the objects appended to sentences_offsets_batch
                              \* and sentences_batch
    chunker_out,              \* the returned tuple
    chunker_exc               \* the exception that left the call, or "none"

chkVars == <<max_seq_len, max_chunk_len, batch_size, docs_batch, cpc, doc_n, sentences,
             sent_i, sentence_chunks, chunk_i, text, cur_len, cur_chunk_len, start,
             lists_heap, sentences_offsets_list, text_batch, nums_batch,
             sentences_offsets_batch, chunker_out, chunker_exc>>

VARIABLES
    \* ---- the merge of chunk results per document, in NerChunkModel.__call__
    \* ---- (entity_linking_sep.py) and EntityLinker.__call__ (entity_linking.py)
    asm_class,                    \* the class whose __call__ is followed
    asm_pc,                       \* position in the merge
    asm_chunks,                   \* the chunks of the zipped batch lists, in order
    asm_n_docs,                   \* the number of documents the chunks were cut from
    asm_k,                        \* the chunks the loops have finished
    cur_doc_num,                  \* local cur_doc_num
    text_len_sum,                 \* local text_len_sum
    doc_entity_substr,            \* local doc_entity_substr
    doc_tags,                     \* local doc_tags
    doc_entity_offsets,           \* local doc_entity_offsets (doc_entity_positions)
    doc_sentences_offsets,        \* local doc_sentences_offsets
    doc_entity_substr_batch,      \* local doc_entity_substr_batch
    doc_tags_batch,               \* local doc_tags_batch
    doc_entity_offsets_batch,     \* local doc_entity_offsets_batch
    doc_sentences_offsets_batch   \* local doc_sentences_offsets_batch

asmVars == <<asm_class, asm_pc, asm_chunks, asm_n_docs, asm_k, cur_doc_num, text_len_sum,
             doc_entity_substr, doc_tags, doc_entity_offsets, doc_sentences_offsets,
             doc_entity_substr_batch, doc_tags_batch, doc_entity_offsets_batch,
             doc_sentences_offsets_batch>>

VARIABLES
    \* ---- the scoring of the words of one mention: link_entities, lines
    \* ---- 533-582, and sum_scores
    fus_pc,                   \* position in the scoring
    num_faiss_cells,          \* self.num_faiss_cells
    fus_substr_len,           \* the mention's substr_len
    fus_label_len,            \* cand_entity_len of the entity the words name
    fus_words,                \* per word: flag and, when not indexed, D[ind_i]
    fus_i,                    \* the words the loop of line 533 has finished
    fus_candidates,           \* candidate_entities_dict[index]
    fus_scores                \* the value sum_scores returns

fusVars == <<fus_pc, num_faiss_cells, fus_substr_len, fus_label_len, fus_words, fus_i,
             fus_candidates, fus_scores>>

VARIABLES
    \* ---- the context of one mention in EntityLinkerSep.rank_by_description,
    \* ---- lines 663-717
    ctx_pc,                   \* position in the making of the context
    full_paragraph,           \* self.full_paragraph
    max_paragraph_len,        \* self.max_paragraph_len
    max_text_len,             \* self.max_text_len
    include_mention,          \* self.include_mention
    ctx_sentences_list,       \* argument sentences_list
    ctx_sentences_offsets,    \* argument sentences_offsets_list
    ctx_entity_offsets,       \* (entity_start_offset, entity_end_offset)
    found_sentence,           \* local sentence
    found_sentence_num,       \* local found_sentence_num
    rel_start_offset,         \* local rel_start_offset
    rel_end_offset,           \* local rel_end_offset
    ctx_context,              \* local context, as the list of its parts
    cur_sent_len,             \* local cur_sent_len
    first_sentence_num,       \* local first_sentence_num
    last_sentence_num,        \* local last_sentence_num
    ctx_result                \* the context appended to contexts

ctxVars == <<ctx_pc, full_paragraph, max_paragraph_len, max_text_len, include_mention,
             ctx_sentences_list, ctx_sentences_offsets, ctx_entity_offsets, found_sentence,
             found_sentence_num, rel_start_offset, rel_end_offset, ctx_context,
             cur_sent_len, first_sentence_num, last_sentence_num, ctx_result>>

vars == <<lnkVars, rbdVars, chkVars, asmVars, fusVars, ctxVars>>

-----------------------------------------------------------------------------
(* Generic helpers for Python lists.                                       *)

Min(a, b) == IF a < b THEN a ELSE b
Max(a, b) == IF a > b THEN a ELSE b

\* s[:n]
Take(s, n) == SubSeq(s, 1, Min(n, Len(s)))

\* the list of the elements of a set, in one fixed order
RECURSIVE SeqOfSet(_)
SeqOfSet(S) ==
    IF S = {} THEN <<>>
    ELSE LET x == CHOOSE y \in S : TRUE IN <<x>> \o SeqOfSet(S \ {x})

\* concatenation of a list of lists
RECURSIVE Flatten(_)
Flatten(ss) == IF ss = <<>> THEN <<>> ELSE Head(ss) \o Flatten(Tail(ss))

\* sum of a list of numbers
RECURSIVE SumSeq(_)
SumSeq(s) == IF s = <<>> THEN 0 ELSE Head(s) + SumSeq(Tail(s))

\* unit of the unrounded scores: 1.0 is Scale
Scale == 60 * 100

\* round(x, 2) of a score x counted in 1/Scale, in hundredths (ties to even)
Round2(x) ==
    LET q == (x * 100) \div Scale
        r == (x * 100) % Scale
    IN  IF 2 * r > Scale \/ (2 * r = Scale /\ q % 2 = 1) THEN q + 1 ELSE q

-----------------------------------------------------------------------------
(* The loaded resources of EntityLinkerSep (load(), lines 301-312) and the *)
(* external collaborators.  Three loaded indexes are considered: the one  *)
(* of the specification's scenario, a wider one in which the deny-listed   *)
(* words are indexed too, and a rich one in which a word names several     *)
(* entities of one type, one of them absent from the popularity table, and *)
(* an entity of another type with a one-word label, and another word      *)
(* names an entity of a third type only.                                   *)

\* self.not_found_str
not_found_str == "not in wiki"

\* self.not_found_tokens; "ooo" stands for the first token of the list
not_found_tokens == <<"ooo">>

\* tok in word, for the words of the vocabulary
SubstrOf(tok, word) == word = tok \/ (tok = "ooo" /\ word = "oooh")

\* self.stopwords
stopwords == {"the", "of"}

IndexNames == {"scenario", "wide", "rich"}

\* the keys of self.word_to_idlist, in the order of self.word_list
word_list_of(idx) ==
    CASE idx = "scenario" -> <<"paris">>
      [] idx = "rich"     -> <<"paris", "hilton">>
      [] OTHER            -> <<"paris", "hilton", "ooo", "romashka">>

\* self.word_to_idlist[word]: a set of (entity id, label length) pairs
idlist_of(idx, word) ==
    IF idx = "scenario"
    THEN (IF word = "paris" THEN {<<"Q90", 1>>} ELSE {})
    ELSE IF idx = "rich"
    THEN CASE word = "paris"  -> {<<"Q90", 1>>, <<"Q2", 1>>, <<"Q3", 2>>, <<"Q4", 1>>,
                                  <<"Q6", 1>>}
           [] word = "hilton" -> {<<"Q5", 2>>}
           [] OTHER           -> {}
    ELSE CASE word = "paris"    -> {<<"Q90", 1>>, <<"Q1", 2>>}
           [] word = "hilton"   -> {<<"Q1", 2>>}
           [] word = "ooo"      -> {<<"Q5", 2>>}
           [] word = "romashka" -> {<<"Q5", 2>>}
           [] OTHER             -> {}

\* word in self.word_to_idlist
InIndex(idx, word) == \E k \in 1..Len(word_list_of(idx)) : word_list_of(idx)[k] = word

\* self.entities_ranking_dict.get(entity, 0)
entities_ranking(entity) ==
    CASE entity = "Q90" -> 100
      [] entity = "Q1"  -> 50
      [] entity = "Q2"  -> 200
      [] entity = "Q3"  -> 300
      [] OTHER          -> 0

\* self.entities_types_sets[tag]
entities_types_sets(tag) ==
    CASE tag = "LOC" -> {"Q90", "Q2", "Q3", "Q4"}
      [] tag = "PER" -> {"Q1", "Q6"}
      [] tag = "ORG" -> {"Q5"}
      [] OTHER       -> {}

\* self.morph_parse(word): the normalizer, an external collaborator
morph_parse(word) == IF word = "parisa" THEN "paris" ELSE word

\* self.faiss_index.search for one word: the distances D and neighbour ids I
\* (positions in word_list, from 0) of its nearest neighbours
faiss_search(word) ==
    IF word = "xyz" THEN [D |-> <<Scale \div 10>>, I |-> <<0>>]
    ELSE [D |-> <<Scale \div 2>>, I |-> <<0>>]

RankerNames == {"sure", "unsure"}

\* the score entity_ranker.batch_rank_rels gives an entity, in 1/Scale
rerank_score(rk, entity) ==
    IF rk = "sure" THEN (9 * Scale) \div 10 ELSE (5 * Scale) \div 100

\* whether self.num_faiss_cells > 1 (the default is 50)
MultiCell == TRUE

-----------------------------------------------------------------------------
(* EntityLinkerSep.__call__, lines 367-403: the split of the mentions into *)
(* deny-listed (nf lists) and ordinary (fnd lists) ones.                   *)

Idx(n) == [i \in 1..n |-> i]
Pick(s, ids) == [k \in 1..Len(ids) |-> s[ids[k]]]

\* a returned id entry: Python's bare id (single) or a list of ids
IdEntry(single, ids) == [single |-> single, ids |-> ids]
\* a confidence: a tuple of scores, or the tail id[1:] of an id string
ScoreConf(v) == [kind |-> "scores", id |-> "", v |-> v]
TailConf(id) == [kind |-> "idtail", id |-> id, v |-> <<>>]
ConfEntry(single, confs) == [single |-> single, confs |-> confs]
ZeroConf == ScoreConf(<<0, 0, 0>>)

\* a test that finds no deny-listed token in any text
IsNotFoundMutant(entity_substr) == FALSE

\* lines 377-381: nf, whether some deny-listed token occurs in the text
IsNotFound(entity_substr) ==
    \E i \in 1..Len(entity_substr), t \in 1..Len(not_found_tokens) :
        SubstrOf(not_found_tokens[t], entity_substr[i])

\* lines 382-391 and 396-400: the nf lists of one document
NfOfDoc(substr, tags, offsets, n_ret) ==
    LET ids == SelectSeq(Idx(Len(substr)), LAMBDA i : IsNotFound(substr[i]))
    IN  [substr  |-> Pick(substr, ids),
         tags    |-> Pick(tags, ids),
         offsets |-> Pick(offsets, ids),
         ids     |-> [k \in 1..Len(ids) |-> IdEntry(n_ret = 1, <<not_found_str>>)],
         conf    |-> [k \in 1..Len(ids) |-> ConfEntry(n_ret = 1, <<ZeroConf>>)]]

\* lines 392-395 and 401-403: the fnd lists of one document
FndOfDoc(substr, tags, offsets) ==
    LET ids == SelectSeq(Idx(Len(substr)), LAMBDA i : ~IsNotFound(substr[i]))
    IN  [substr  |-> Pick(substr, ids),
         tags    |-> Pick(tags, ids),
         offsets |-> Pick(offsets, ids)]

-----------------------------------------------------------------------------
(* EntityLinkerSep.link_entities, lines 434-514: the words of the mentions *)
(* and the faiss search for the words the index does not hold.             *)

\* lines 434-437: the words a mention keeps
FilterWords(entity_substr) == SelectSeq(entity_substr, LAMBDA w : w \notin stopwords /\ w # "")

\* lines 452-473 for one word: its entry and, when the normal form differs,
\* the entry of the normal form; both carry the same index and word_count
EntriesOfWord(idx, i, w, tag, wc) ==
    LET E(x) == [index |-> i, word_count |-> wc, tag |-> tag,
                 flag |-> InIndex(idx, x), word |-> x]
    IN  <<E(w)>> \o (IF w # morph_parse(w) THEN <<E(morph_parse(w))>> ELSE <<>>)

\* lines 451-473 for one mention (i counts from 0, wc0 is word_count on entry)
EntriesOfMention(idx, i, words, tag, wc0) ==
    Flatten([k \in 1..Len(words) |-> EntriesOfWord(idx, i, words[k], tag, wc0 + k - 1)])

\* the words of the first m mentions of a list of word lists
WordsBefore(wordsList, m) == SumSeq([j \in 1..m |-> Len(wordsList[j])])

\* lines 445-478 for one document
EntriesOfDoc(idx, wordsList, tags, wc0) ==
    Flatten([m \in 1..Len(wordsList) |->
        EntriesOfMention(idx, m - 1, wordsList[m], tags[m],
                         wc0 + WordsBefore(wordsList, m - 1))])

\* entity_substr_batch after lines 434-437
WordsBatch(fnd) == [d \in 1..Len(fnd) |->
                      [m \in 1..Len(fnd[d].substr) |-> FilterWords(fnd[d].substr[m])]]

\* word_count at the start of document d (it is not reset between documents)
WordCountAt(wb, d) == SumSeq([j \in 1..(d - 1) |-> WordsBefore(wb[j], Len(wb[j]))])

\* indices_batch, word_counts_batch, word_tags_batch, word_fnd_flags_batch
\* (one entry record per position) for every document
EntriesBatch(idx, fnd) ==
    LET wb == WordsBatch(fnd)
    IN  [d \in 1..Len(fnd) |-> EntriesOfDoc(idx, wb[d], fnd[d].tags, WordCountAt(wb, d))]

\* fnd_words_batch[d]
FndWords(entries) ==
    LET hit == SelectSeq(entries, LAMBDA e : e.flag) IN [k \in 1..Len(hit) |-> hit[k].word]

\* nf_words_doc_nums: (word, doc_num) of the words the index does not hold
NfWordsDocNums(eb) ==
    Flatten([d \in 1..Len(eb) |->
        LET miss == SelectSeq(eb[d], LAMBDA e : ~e.flag)
        IN  [k \in 1..Len(miss) |-> [word |-> miss[k].word, doc_num |-> d - 1]]])

\* lines 493-510: the loop that groups the faiss results by document
RECURSIVE GroupLoop(_, _, _, _)
GroupLoop(nf, DI_b, DI_list, prev_doc_num) ==
    IF nf = <<>> THEN (IF DI_list # <<>> THEN Append(DI_b, DI_list) ELSE DI_b)
    ELSE LET doc_num == Head(nf).doc_num
             res     == faiss_search(Head(nf).word)
         IN  IF doc_num # prev_doc_num
             THEN GroupLoop(Tail(nf),
                            Append(DI_b, DI_list)
                                \o [j \in 1..(doc_num - prev_doc_num - 1) |-> <<>>],
                            <<res>>, doc_num)
             ELSE GroupLoop(Tail(nf), DI_b, Append(DI_list, res), doc_num)

\* lines 488-514: D_batch and I_batch, one list per document
DIBatch(eb) ==
    LET g == GroupLoop(NfWordsDocNums(eb), <<>>, <<>>, 0)
    IN  g \o [i \in 1..(Len(eb) - Len(g)) |-> <<>>]

-----------------------------------------------------------------------------
(* EntityLinkerSep.link_entities, lines 524-582: the candidates of every   *)
(* mention of one document.                                                *)

\* the value of a local variable that was never assigned
Unbound == 0 - 1

\* candidate_entities_dict: key in dict
HasKey(dict, key) == \E k \in 1..Len(dict) : dict[k].key = key

\* lines 546-550 and 573-577: dict.setdefault(key, []) += items
DictExtend(dict, key, items) ==
    IF HasKey(dict, key)
    THEN [k \in 1..Len(dict) |->
            IF dict[k].key = key
            THEN [key |-> key, items |-> dict[k].items \o items] ELSE dict[k]]
    ELSE Append(dict, [key |-> key, items |-> items])

\* [(entity, cand_entity_len, score) for (entity, cand_entity_len), score in
\*  candidate_entities.items()]
CandItems(cand) ==
    [k \in 1..Len(cand) |->
        [id |-> cand[k].entity[1], len |-> cand[k].entity[2], score |-> cand[k].score]]

\* lines 562-566: keep the larger score of an (entity, length) pair
CandPut(cand, entity, score) ==
    IF \E k \in 1..Len(cand) : cand[k].entity = entity
    THEN [k \in 1..Len(cand) |->
            IF cand[k].entity = entity /\ score > cand[k].score
            THEN [entity |-> entity, score |-> score] ELSE cand[k]]
    ELSE Append(cand, [entity |-> entity, score |-> score])

RECURSIVE PutAll(_, _, _)
PutAll(cand, ents, score) ==
    IF ents = <<>> THEN cand
    ELSE PutAll(CandPut(cand, Head(ents), score), Tail(ents), score)

\* lines 558-560: the entities of the tag's type set or of the "AMB" set
TypeFilter(entities_set, tag) ==
    {entity \in entities_set :
        entity[1] \in entities_types_sets(tag) \/ entity[1] \in entities_types_sets("AMB")}

\* lines 553-566: for ind, score in zip(ind_list, scores_list)
RECURSIVE AddHits(_, _, _, _, _, _)
AddHits(cand, ind_list, scores_list, flag, tag, idx) ==
    IF ind_list = <<>> \/ scores_list = <<>> THEN cand
    ELSE LET word == IF flag THEN Head(ind_list) ELSE word_list_of(idx)[Head(ind_list) + 1]
             entities_set == TypeFilter(idlist_of(idx, word), tag)
         IN  AddHits(PutAll(cand, SeqOfSet(entities_set), Head(scores_list)),
                     Tail(ind_list), Tail(scores_list), flag, tag, idx)

\* lines 528-531: the locals before the loop over the words
LoopStart == [dict |-> <<>>, cand |-> <<>>, prev_word_count |-> 0, prev_index |-> 0,
              words_i |-> 0, ind_i |-> 0]

\* lines 533-571: one iteration of the loop over the words of a document
WordStep(st, e, fnd_words, DI, idx) ==
    LET scores_list ==
            IF e.flag THEN <<Scale>>
            ELSE IF MultiCell
                 THEN [j \in 1..Len(DI[st.ind_i + 1].D) |-> Scale - DI[st.ind_i + 1].D[j]]
                 ELSE DI[st.ind_i + 1].D
        ind_list == IF e.flag THEN <<fnd_words[st.words_i + 1]>> ELSE DI[st.ind_i + 1].I
        changed  == e.word_count # st.prev_word_count
        dict1    == IF changed THEN DictExtend(st.dict, st.prev_index, CandItems(st.cand))
                    ELSE st.dict
        cand1    == IF changed THEN <<>> ELSE st.cand
    IN  [dict            |-> dict1,
         cand            |-> AddHits(cand1, ind_list, scores_list, e.flag, e.tag, idx),
         prev_word_count |-> e.word_count,
         prev_index      |-> e.index,
         words_i         |-> IF e.flag THEN st.words_i + 1 ELSE st.words_i,
         ind_i           |-> IF e.flag THEN st.ind_i ELSE st.ind_i + 1]

RECURSIVE LoopWords(_, _, _, _, _)
LoopWords(st, entries, fnd_words, DI, idx) ==
    IF entries = <<>> THEN st
    ELSE LoopWords(WordStep(st, Head(entries), fnd_words, DI, idx),
                   Tail(entries), fnd_words, DI, idx)

\* `index` after the loop: the last entry's, or what it was before the loop
IndexAfter(entries, before) ==
    IF entries = <<>> THEN before ELSE entries[Len(entries)].index

\* lines 527-577: candidate_entities_dict.values() of one document
CandidateDict(entries, fnd_words, DI, idx, index_after) ==
    LET st == LoopWords(LoopStart, entries, fnd_words, DI, idx)
    IN  DictExtend(st.dict, index_after, CandItems(st.cand))

-----------------------------------------------------------------------------
(* EntityLinkerSep.sum_scores, lines 630-645.                              *)

\* lines 631-633: the sum of the scores of every (entity, length) pair
RECURSIVE SumLoop(_, _)
SumLoop(cands, sums) ==
    IF cands = <<>> THEN sums
    ELSE LET c == Head(cands)
             hit == \E k \in 1..Len(sums) : sums[k].id = c.id /\ sums[k].len = c.len
         IN  SumLoop(Tail(cands),
                IF hit
                THEN [k \in 1..Len(sums) |->
                        IF sums[k].id = c.id /\ sums[k].len = c.len
                        THEN [sums[k] EXCEPT !.sum = @ + c.score] ELSE sums[k]]
                ELSE Append(sums, [id |-> c.id, len |-> c.len, sum |-> c.score]))

\* line 637
FusedScore(scores_sum, cand_entity_len, substr_len) ==
    Min(scores_sum, cand_entity_len * Scale) \div Max(substr_len, cand_entity_len)

\* lines 635-642: the largest normalized score of every entity
RECURSIVE NormLoop(_, _, _)
NormLoop(sums, ews, substr_len) ==
    IF sums = <<>> THEN ews
    ELSE LET c == Head(sums)
             score == FusedScore(c.sum, c.len, substr_len)
             hit == \E k \in 1..Len(ews) : ews[k].id = c.id
         IN  NormLoop(Tail(sums),
                IF hit
                THEN [k \in 1..Len(ews) |->
                        IF ews[k].id = c.id /\ score > ews[k].score
                        THEN [id |-> c.id, score |-> score] ELSE ews[k]]
                ELSE Append(ews, [id |-> c.id, score |-> score]),
                substr_len)

sum_scores(candidate_entities, substr_len) ==
    NormLoop(SumLoop(candidate_entities, <<>>), <<>>, substr_len)

-----------------------------------------------------------------------------
(* sorted(..., reverse=True): a stable sort, descending on a tuple key.    *)

\* a > b for two tuples of numbers of one length
RECURSIVE TupleGreater(_, _)
TupleGreater(a, b) ==
    IF a = <<>> \/ b = <<>> THEN FALSE
    ELSE IF Head(a) # Head(b) THEN Head(a) > Head(b)
    ELSE TupleGreater(Tail(a), Tail(b))

\* x put before the first element with a smaller key
RECURSIVE InsertDesc(_, _)
InsertDesc(sorted, x) ==
    IF sorted = <<>> THEN <<x>>
    ELSE IF TupleGreater(x.key, Head(sorted).key) THEN <<x>> \o sorted
    ELSE <<Head(sorted)>> \o InsertDesc(Tail(sorted), x)

RECURSIVE SortLoop(_, _)
SortLoop(s, acc) == IF s = <<>> THEN acc ELSE SortLoop(Tail(s), InsertDesc(acc, Head(s)))

\* the records of s (each with a field key), largest key first, equal keys in
\* their order in s
SortedDesc(s) == SortLoop(s, <<>>)

-----------------------------------------------------------------------------
(* EntityLinkerSep.link_entities, lines 586-606: the ranking by popularity *)
(* of the candidates of one mention.                                       *)

\* the default of __init__ for num_entities_for_bert_ranking
default_num_entities_for_bert_ranking == 50

\* the candidates with their popularity, sorted by the substring score alone
RankedByPopularityMutant(candidate_entities) ==
    SortedDesc([k \in 1..Len(candidate_entities) |->
        [id    |-> candidate_entities[k].id,
         score |-> candidate_entities[k].score,
         pop   |-> entities_ranking(candidate_entities[k].id),
         key   |-> <<candidate_entities[k].score>>]])

\* lines 588-590: the candidates with their popularity, sorted by
\* (substring score, popularity)
RankedByPopularity(candidate_entities) ==
    SortedDesc([k \in 1..Len(candidate_entities) |->
        [id    |-> candidate_entities[k].id,
         score |-> candidate_entities[k].score,
         pop   |-> entities_ranking(candidate_entities[k].id),
         key   |-> <<candidate_entities[k].score,
                     entities_ranking(candidate_entities[k].id)>>]])

\* the ids of all the candidates, whatever their number
CandidateIdsMutant(ranked) == [k \in 1..Len(ranked) |-> ranked[k].id]

\* lines 594-595: the ids sent to the reranker
CandidateIds(ranked) ==
    Take([k \in 1..Len(ranked) |-> ranked[k].id], num_entities_for_bert_ranking)

\* lines 596-597: candidate_entities holds id strings by now, so
\* candidate_entity[1:] is the tail of the id
ConfOfIds(ids) == Take([k \in 1..Len(ids) |-> TailConf(ids[k])], num_entities_for_bert_ranking)

\* lines 600-605 and 751-756: what is appended to entity_ids_list
EmitIds(top, n_ret) ==
    IF n_ret = 1 /\ top # <<>>
    THEN IdEntry(TRUE, <<top[1]>>)
    ELSE IdEntry(FALSE, Take(top, n_ret))

\* lines 600-605 and 751-756: what is appended to conf_list
EmitConf(top, conf, n_ret) ==
    IF n_ret = 1 /\ top # <<>>
    THEN ConfEntry(TRUE, <<conf[1]>>)
    ELSE ConfEntry(FALSE, Take(conf, n_ret))

-----------------------------------------------------------------------------
(* EntityLinkerSep.rank_by_description, lines 723-757.                     *)

\* entity[0].startswith("Q"), for the ids of the loaded tables
StartsWithQ(id) == id \in {"Q90", "Q1", "Q5", "Q2", "Q3", "Q4", "Q6"}

\* lines 726-732: the scored candidates (id, substring score, popularity,
\* rerank score), filtered and sorted; scores in hundredths
EntitiesWithScores(scores, ranked) ==
    LET Sub(id) == IF \E k \in 1..Len(ranked) : ranked[k].id = id
                   THEN ranked[CHOOSE k \in 1..Len(ranked) : ranked[k].id = id].score
                   ELSE 0
        Pop(id) == IF \E k \in 1..Len(ranked) : ranked[k].id = id
                   THEN ranked[CHOOSE k \in 1..Len(ranked) : ranked[k].id = id].pop
                   ELSE 0
        all == [k \in 1..Len(scores) |->
                  [id     |-> scores[k].id,
                   substr |-> Round2(Sub(scores[k].id)),
                   pop    |-> Pop(scores[k].id),
                   rerank |-> Round2(scores[k].score)]]
        kept == SelectSeq(all, LAMBDA e : e.rerank > 0 /\ StartsWithQ(e.id))
    IN  SortedDesc([k \in 1..Len(kept) |->
            [id |-> kept[k].id, substr |-> kept[k].substr, pop |-> kept[k].pop,
             rerank |-> kept[k].rerank,
             key |-> <<kept[k].substr, kept[k].rerank, kept[k].pop>>]])

\* the acceptance rule without its tests of the substring score alone
RejectedMutant(ews, substr_len) ==
    \/ ews = <<>>
    \/ ews # <<>> /\ substr_len = 1 /\ ews[1].substr < 100
    \/ ews # <<>> /\ (\/ ews[1].rerank < 11 /\ ews[1].pop < 90
                      \/ ews[1].rerank < 13 /\ ews[1].pop < 20
                      \/ ews[1].rerank < 30 /\ ews[1].pop < 4)

\* lines 735-746: whether the ranking is replaced by the not-found sentinel
Rejected(ews, substr_len) ==
    \/ ews = <<>>
    \/ ews # <<>> /\ substr_len = 1 /\ ews[1].substr < 100
    \/ ews # <<>> /\ (\/ ews[1].rerank < 11 /\ ews[1].pop < 90
                      \/ ews[1].substr < 30
                      \/ ews[1].rerank < 13 /\ ews[1].pop < 20
                      \/ ews[1].rerank < 30 /\ ews[1].pop < 4
                      \/ ews[1].substr = 50)

\* lines 735-749: top_entities
TopEntities(ews, substr_len) ==
    IF Rejected(ews, substr_len) THEN <<not_found_str>>
    ELSE [k \in 1..Len(ews) |-> ews[k].id]

\* lines 735-749: top_conf
TopConf(ews, substr_len) ==
    IF Rejected(ews, substr_len) THEN <<ZeroConf>>
    ELSE [k \in 1..Len(ews) |-> ScoreConf(<<ews[k].substr, ews[k].pop, ews[k].rerank>>)]

-----------------------------------------------------------------------------
(* The batches given to EntityLinkerSep.__call__.                          *)

\* the most documents of a batch
MaxDocs == 2
\* the most mentions of a batch, all documents together
MaxMentions == 2

\* the mentions the tagger may report (text already lower-cased by
\* NerChunkModel): an indexed word, a stop-word, a deny-listed name, a word
\* the index does not hold, and two words one of which has a normal form
MentionKinds ==
    { [substr |-> <<"paris">>,           tag |-> "LOC"],
      [substr |-> <<"the">>,             tag |-> "LOC"],
      [substr |-> <<"ooo", "romashka">>, tag |-> "ORG"],
      [substr |-> <<"xyz">>,             tag |-> "LOC"],
      [substr |-> <<"parisa", "hilton">>, tag |-> "PER"] }

\* the documents of at most m mentions
DocsUpTo(m) == UNION {[1..n -> MentionKinds] : n \in 0..m}

\* the batches of exactly k documents and at most m mentions
RECURSIVE BatchesOf(_, _)
BatchesOf(k, m) ==
    IF k = 0 THEN {<<>>}
    ELSE UNION {{<<doc>> \o rest : rest \in BatchesOf(k - 1, m - Len(doc))} :
                doc \in DocsUpTo(m)}

Batches == UNION {BatchesOf(k, MaxMentions) : k \in 0..MaxDocs}

\* the offsets of the j-th mention of a document
OffsetsAt(j) == <<10 * (j - 1), 10 * (j - 1) + 5>>

\* the fnd lists of the documents of a batch
FndBatch(b) ==
    [d \in 1..Len(b) |->
        FndOfDoc([m \in 1..Len(b[d]) |-> b[d][m].substr],
                 [m \in 1..Len(b[d]) |-> b[d][m].tag],
                 [m \in 1..Len(b[d]) |-> OffsetsAt(m)])]

\* self.q_to_label.get(entity_id, entity_id)
q_to_label(entity_id) == IF entity_id = "Q90" THEN "Paris" ELSE entity_id

-----------------------------------------------------------------------------
(* EntityLinkerSep.__call__ as a state machine.                            *)

LnkInit ==
    /\ num_entities_to_return \in {1, 2}
    /\ use_descriptions \in BOOLEAN
    /\ word_to_idlist \in IndexNames
    /\ entity_ranker \in RankerNames
    /\ num_entities_for_bert_ranking \in {2, default_num_entities_for_bert_ranking}
    /\ lpc = "idle"
    /\ entity_substr_batch = <<>>
    /\ tags_batch = <<>>
    /\ entity_offsets_batch = <<>>
    /\ nf_batch = <<>>
    /\ fnd_batch = <<>>
    /\ words_batch = <<>>
    /\ entries_batch = <<>>
    /\ DI_batch = <<>>
    /\ doc_i = 0
    /\ index = Unbound
    /\ fnd_entity_ids_batch = <<>>
    /\ fnd_conf_batch = <<>>
    /\ entities_scores_list = <<>>
    /\ ranker_calls = <<>>
    /\ out = <<>>
    /\ exc = "none"

lnkConfig == <<num_entities_to_return, use_descriptions, word_to_idlist, entity_ranker,
              num_entities_for_bert_ranking>>
lnkArgs == <<entity_substr_batch, tags_batch, entity_offsets_batch>>
lnkPrep == <<nf_batch, fnd_batch, words_batch, entries_batch, DI_batch>>

\* link_entities is entered, lines 434-514: the words, their entries and the
\* faiss results
Prepare(fnd, eb) ==
    /\ fnd_batch' = fnd
    /\ words_batch' = WordsBatch(fnd)
    /\ entries_batch' = eb
    /\ DI_batch' = DIBatch(eb)

\* lines 367-403 split every document
Split(substr, tags, offsets) ==
    /\ entity_substr_batch' = substr
    /\ tags_batch' = tags
    /\ entity_offsets_batch' = offsets
    /\ nf_batch' = [d \in 1..Len(substr) |->
           NfOfDoc(substr[d], tags[d], offsets[d], num_entities_to_return)]

\* __call__ is entered with a batch: lines 367-407, and lines 434-514 of
\* link_entities
Call(b) ==
    /\ lpc = "idle"
    /\ UNCHANGED <<rbdVars, chkVars, asmVars, fusVars, ctxVars>>
    /\ Split([d \in 1..Len(b) |-> [m \in 1..Len(b[d]) |-> b[d][m].substr]],
             [d \in 1..Len(b) |-> [m \in 1..Len(b[d]) |-> b[d][m].tag]],
             [d \in 1..Len(b) |-> [m \in 1..Len(b[d]) |-> OffsetsAt(m)]])
    /\ Prepare(FndBatch(b), EntriesBatch(word_to_idlist, FndBatch(b)))
    /\ lpc' = "link"
    /\ UNCHANGED <<lnkConfig, doc_i, index, fnd_entity_ids_batch, fnd_conf_batch, entities_scores_list,
                   ranker_calls, out, exc>>

\* lines 659-721 of rank_by_description: one context per mention that has a
\* candidate list (the context is named by the mention's offsets), and the
\* request sent to entity_ranker.batch_rank_rels
RankerRequest(entity_substr_list, entity_offsets_list, candidate_entities_list) ==
    [contexts |-> Take(entity_offsets_list,
                       Min(Len(entity_substr_list), Len(candidate_entities_list))),
     candidates |-> candidate_entities_list]

\* the answer of entity_ranker.batch_rank_rels for one candidate list: the
\* (entity, score) pairs
RankerAnswer(rk, candidate_entities) ==
    [j \in 1..Len(candidate_entities) |->
        [id |-> candidate_entities[j],
         score |-> rerank_score(rk, candidate_entities[j])]]

\* lines 586-599 for one mention: the ranked candidates and the ids kept for
\* the reranker
CandidatesOf(ranked) == [ranked |-> ranked, cel |-> CandidateIds(ranked)]

\* lines 580-599 for one mention
Candidates(items, substr_len) ==
    CandidatesOf(RankedByPopularity(sum_scores(items, substr_len)))

\* lines 600-605: the result of a mention when use_descriptions is off
PlainResult(cel, n_ret) ==
    [ids |-> EmitIds(cel, n_ret), conf |-> EmitConf(cel, ConfOfIds(cel), n_ret)]

\* lines 735-756: the result of a mention after reranking
DescribedResult(ews, substr_len, n_ret) ==
    [ids  |-> EmitIds(TopEntities(ews, substr_len), n_ret),
     conf |-> EmitConf(TopEntities(ews, substr_len), TopConf(ews, substr_len), n_ret)]

\* entity_ids_list, conf_list, entities_scores_list (lines 592-593 and 606:
\* per mention the entities with their substring and popularity scores, in
\* the order of the sorted candidates) and the reranker requests of one
\* document
Collect(res, requests, per) ==
    [ids  |-> [k \in 1..Len(res) |-> res[k].ids],
     conf |-> [k \in 1..Len(res) |-> res[k].conf],
     scores |-> [k \in 1..Len(per) |-> per[k].ranked],
     requests |-> requests]

\* lines 584-616: per holds, for every entry of candidate_entities_total
\* that zip pairs with a mention, the candidates of that entry
ResultsOf(words, offsets, tags, per, rk, with_descriptions, n_ret) ==
    IF with_descriptions
    THEN Collect([k \in 1..Min(Len(per), Len(tags)) |->
                    DescribedResult(
                        EntitiesWithScores(RankerAnswer(rk, per[k].cel), per[k].ranked),
                        Len(words[k]), n_ret)],
                 <<RankerRequest(words, offsets, [k \in 1..Len(per) |-> per[k].cel])>>,
                 per)
    ELSE Collect([k \in 1..Len(per) |-> PlainResult(per[k].cel, n_ret)], <<>>, per)

\* lines 579-616: dict is candidate_entities_dict, words the word lists of
\* the mentions of the document
LinkedDocFrom(words, offsets, tags, dict, rk, with_descriptions, n_ret) ==
    ResultsOf(words, offsets, tags,
              [k \in 1..Min(Len(dict), Len(words)) |->
                  Candidates(dict[k].items, Len(words[k]))],
              rk, with_descriptions, n_ret)

\* lines 524-616: the ranking results of document d, which has at least one
\* ordinary mention; index_after is `index` after the loop over the words
LinkedDoc(d, index_after) ==
    LinkedDocFrom(words_batch[d], fnd_batch[d].offsets, fnd_batch[d].tags,
                  CandidateDict(entries_batch[d], FndWords(entries_batch[d]), DI_batch[d],
                                word_to_idlist, index_after),
                  entity_ranker, use_descriptions, num_entities_to_return)

\* lines 617-618: the results of a document are appended
StoreDoc(r, index_after) ==
    /\ fnd_entity_ids_batch' = Append(fnd_entity_ids_batch, r.ids)
    /\ fnd_conf_batch' = Append(fnd_conf_batch, r.conf)
    /\ entities_scores_list' = r.scores
    /\ ranker_calls' = ranker_calls \o r.requests
    /\ index' = index_after
    /\ doc_i' = doc_i + 1
    /\ UNCHANGED <<lpc, exc>>

\* the iteration for document d, `index` being index_after after its loop
LinkDocAt(d, index_after) ==
    IF fnd_batch[d].substr = <<>>
    THEN \* line 524: no ordinary mention in the document
         /\ fnd_entity_ids_batch' = Append(fnd_entity_ids_batch, <<>>)
         /\ fnd_conf_batch' = Append(fnd_conf_batch, <<>>)
         /\ doc_i' = doc_i + 1
         /\ UNCHANGED <<lpc, index, entities_scores_list, ranker_calls, exc>>
    ELSE IF index_after = Unbound
    THEN \* line 573 reads `index`, which no iteration has assigned
         /\ lpc' = "raised"
         /\ exc' = "UnboundLocalError"
         /\ UNCHANGED <<doc_i, index, fnd_entity_ids_batch, fnd_conf_batch, entities_scores_list, ranker_calls>>
    ELSE StoreDoc(LinkedDoc(d, index_after), index_after)

\* lines 518-618: one iteration of the loop over the documents
LinkDoc ==
    /\ lpc = "link"
    /\ UNCHANGED <<rbdVars, chkVars, asmVars, fusVars, ctxVars>>
    /\ doc_i < Len(fnd_batch)
    /\ LinkDocAt(doc_i + 1, IndexAfter(entries_batch[doc_i + 1], index))
    /\ UNCHANGED <<lnkConfig, lnkArgs, lnkPrep, out>>

\* lines 409-420: the merged lists of every document
Merged ==
    [d \in 1..Len(nf_batch) |->
        [substr  |-> nf_batch[d].substr \o fnd_batch[d].substr,
         tags    |-> nf_batch[d].tags \o fnd_batch[d].tags,
         offsets |-> nf_batch[d].offsets \o fnd_batch[d].offsets,
         ids     |-> nf_batch[d].ids \o fnd_entity_ids_batch[d],
         conf    |-> nf_batch[d].conf \o fnd_conf_batch[d]]]

\* lines 759-770, find_labels: the else branch (an id that is no list) reads
\* entity_id, a name that is not defined there
FindLabelsRaises(merged) ==
    \E d \in 1..Len(merged) : \E k \in 1..Len(merged[d].ids) : merged[d].ids[k].single

\* lines 764-765: the labels of a list of ids
find_labels(merged) ==
    [d \in 1..Len(merged) |->
        [k \in 1..Len(merged[d].ids) |->
            [j \in 1..Len(merged[d].ids[k].ids) |-> q_to_label(merged[d].ids[k].ids[j])]]]

\* lines 421-426: the labels are looked up and the lists returned
ReturnOf(merged) ==
    IF FindLabelsRaises(merged)
    THEN /\ lpc' = "raised"
         /\ exc' = "NameError"
         /\ out' = out
    ELSE /\ lpc' = "done"
         /\ exc' = exc
         /\ out' = [d \in 1..Len(merged) |->
                      [substr  |-> merged[d].substr,
                       tags    |-> merged[d].tags,
                       offsets |-> merged[d].offsets,
                       ids     |-> merged[d].ids,
                       conf    |-> merged[d].conf,
                       labels  |-> find_labels(merged)[d]]]

\* lines 405-426: link_entities has returned; merge, find_labels, return
Return ==
    /\ lpc = "link"
    /\ UNCHANGED <<rbdVars, chkVars, asmVars, fusVars, ctxVars>>
    /\ doc_i = Len(fnd_batch)
    /\ ReturnOf(Merged)
    /\ UNCHANGED <<lnkConfig, lnkArgs, lnkPrep, doc_i, index,
                   fnd_entity_ids_batch, fnd_conf_batch, entities_scores_list, ranker_calls>>

LnkNext ==
    \/ lpc = "idle" /\ \E b \in Batches : Call(b)
    \/ LinkDoc
    \/ Return

\* no call of rank_by_description is followed
RbdIdle ==
    /\ rbd_pc = "idle"
    /\ rbd_n_ret = 0
    /\ rbd_args = <<>>
    /\ rbd_i = 0
    /\ entities_with_scores = <<>>
    /\ top_entities = <<>>
    /\ top_conf = <<>>
    /\ entity_ids_list = <<>>
    /\ conf_list = <<>>

\* no call of EntityLinkerSep.__call__ is followed
LnkIdle ==
    /\ num_entities_to_return = 0
    /\ use_descriptions = FALSE
    /\ word_to_idlist = "scenario"
    /\ entity_ranker = "sure"
    /\ num_entities_for_bert_ranking = 0
    /\ lpc = "off"
    /\ entity_substr_batch = <<>>
    /\ tags_batch = <<>>
    /\ entity_offsets_batch = <<>>
    /\ nf_batch = <<>>
    /\ fnd_batch = <<>>
    /\ words_batch = <<>>
    /\ entries_batch = <<>>
    /\ DI_batch = <<>>
    /\ doc_i = 0
    /\ index = Unbound
    /\ fnd_entity_ids_batch = <<>>
    /\ fnd_conf_batch = <<>>
    /\ entities_scores_list = <<>>
    /\ ranker_calls = <<>>
    /\ out = <<>>
    /\ exc = "none"

-----------------------------------------------------------------------------
(* One call of EntityLinkerSep.rank_by_description, lines 723-757, on      *)
(* arguments drawn from the scores around the thresholds of the acceptance *)
(* rule.  A mention's argument record holds substr_len, the reranker's     *)
(* answer (scores) and entities_scores as the list of its items (ranked).  *)

\* the most mentions of a call of rank_by_description
MaxRankMentions == 2

\* unrounded substring scores, in 1/Scale: 0.29, 0.2992, 0.5, 0.99, 1.0
SubstrScores == {1740, 1795, 3000, 5940, 6000}
\* popularity scores
PopScores == {3, 4, 19, 20, 89, 90}
\* unrounded reranker scores, in 1/Scale: 0.0, 0.004, 0.10, 0.11, 0.125,
\* 0.13, 0.29, 0.30, 0.9
RerankScores == {0, 24, 600, 660, 750, 780, 1740, 1800, 5400}

\* one candidate with its scores
Scored(id, s, p, r) == [id |-> id, score |-> s, pop |-> p, rerank |-> r]

\* the second candidates considered next to Q90: a strong one, a weak one,
\* and one whose id is not a knowledge-base id
SecondCandidates ==
    {Scored("Q1", 6000, 100, 5400), Scored("Q1", 3000, 3, 600), Scored("P31", 6000, 100, 5400)}

\* the candidate lists of a mention: none, Q90 alone, Q90 with a second one
ScoredLists ==
    {<<>>}
    \cup {<<Scored("Q90", s, p, r)>> : s \in SubstrScores, p \in PopScores, r \in RerankScores}
    \cup UNION {{<<Scored("Q90", s, p, r), c>> : s \in SubstrScores, p \in PopScores,
                                                  r \in {600, 5400}} : c \in SecondCandidates}

\* the argument record of a mention with the given scored candidates
RankArg(substr_len, cands) ==
    [substr_len |-> substr_len,
     scores |-> [k \in 1..Len(cands) |-> [id |-> cands[k].id, score |-> cands[k].rerank]],
     ranked |-> [k \in 1..Len(cands) |->
                   [id |-> cands[k].id, score |-> cands[k].score, pop |-> cands[k].pop]]]

\* the arguments of the first mention of a call
FirstArgs == {RankArg(n, c) : n \in {1, 2}, c \in ScoredLists}

\* the arguments of the further mentions of a call
OtherArgs ==
    {RankArg(1, <<>>), RankArg(1, <<Scored("Q1", 6000, 100, 5400)>>),
     RankArg(2, <<Scored("Q5", 3000, 50, 5400)>>)}

\* the argument lists of a call: at least one mention, at most MaxRankMentions
RankArgLists ==
    UNION {{<<a>> \o rest : a \in FirstArgs, rest \in [1..n -> OtherArgs]} :
              n \in 0..(MaxRankMentions - 1)}

RbdInit ==
    /\ rbd_pc = "score"
    /\ rbd_n_ret \in {1, 2}
    /\ rbd_args \in RankArgLists
    /\ rbd_i = 0
    /\ entities_with_scores = <<>>
    /\ top_entities = <<>>
    /\ top_conf = <<>>
    /\ entity_ids_list = <<>>
    /\ conf_list = <<>>

\* lines 723-733: the next mention's candidates are scored, filtered, sorted
RbdScore ==
    /\ rbd_pc = "score"
    /\ UNCHANGED <<lnkVars, chkVars, asmVars, fusVars, ctxVars>>
    /\ rbd_i < Len(rbd_args)
    /\ entities_with_scores' =
           EntitiesWithScores(rbd_args[rbd_i + 1].scores, rbd_args[rbd_i + 1].ranked)
    /\ rbd_pc' = "accept"
    /\ UNCHANGED <<rbd_n_ret, rbd_args, rbd_i, top_entities, top_conf,
                   entity_ids_list, conf_list>>

\* lines 735-749: the acceptance rule
RbdAccept ==
    /\ rbd_pc = "accept"
    /\ UNCHANGED <<lnkVars, chkVars, asmVars, fusVars, ctxVars>>
    /\ top_entities' = TopEntities(entities_with_scores, rbd_args[rbd_i + 1].substr_len)
    /\ top_conf' = TopConf(entities_with_scores, rbd_args[rbd_i + 1].substr_len)
    /\ rbd_pc' = "emit"
    /\ UNCHANGED <<rbd_n_ret, rbd_args, rbd_i, entities_with_scores,
                   entity_ids_list, conf_list>>

\* lines 751-756: the mention's result is appended
RbdEmit ==
    /\ rbd_pc = "emit"
    /\ UNCHANGED <<lnkVars, chkVars, asmVars, fusVars, ctxVars>>
    /\ entity_ids_list' = Append(entity_ids_list, EmitIds(top_entities, rbd_n_ret))
    /\ conf_list' = Append(conf_list, EmitConf(top_entities, top_conf, rbd_n_ret))
    /\ rbd_i' = rbd_i + 1
    /\ rbd_pc' = "score"
    /\ UNCHANGED <<rbd_n_ret, rbd_args, entities_with_scores, top_entities, top_conf>>

\* line 757: return entity_ids_list, conf_list
RbdReturn ==
    /\ rbd_pc = "score"
    /\ UNCHANGED <<lnkVars, chkVars, asmVars, fusVars, ctxVars>>
    /\ rbd_i = Len(rbd_args)
    /\ rbd_pc' = "done"
    /\ UNCHANGED <<rbd_n_ret, rbd_args, rbd_i, entities_with_scores, top_entities,
                   top_conf, entity_ids_list, conf_list>>

RbdNext ==
    \/ RbdScore
    \/ RbdAccept
    \/ RbdEmit
    \/ RbdReturn

-----------------------------------------------------------------------------
(* Python strings, as sequences of characters.  The letter "a" stands for  *)
(* a Russian letter and "z" for a Latin one.                               *)

Whitespace == {" ", "\n"}

\* the characters ending a sentence
SentenceEnd == {".", "!", "?"}

\* s.lstrip(chars)
RECURSIVE LStrip(_, _)
LStrip(s, chars) ==
    IF s # <<>> /\ s[1] \in chars THEN LStrip(Tail(s), chars) ELSE s

\* s.rstrip(chars)
RECURSIVE RStrip(_, _)
RStrip(s, chars) ==
    IF s # <<>> /\ s[Len(s)] \in chars THEN RStrip(SubSeq(s, 1, Len(s) - 1), chars) ELSE s

\* s.strip(chars)
StrStrip(s, chars) == RStrip(LStrip(s, chars), chars)

\* s.split(sep): cur is the piece being read
RECURSIVE SplitLoop(_, _, _)
SplitLoop(s, sep, cur) ==
    IF s = <<>> THEN <<cur>>
    ELSE IF Len(s) >= Len(sep) /\ SubSeq(s, 1, Len(sep)) = sep
         THEN <<cur>> \o SplitLoop(SubSeq(s, Len(sep) + 1, Len(s)), sep, <<>>)
         ELSE SplitLoop(Tail(s), sep, Append(cur, s[1]))

StrSplit(s, sep) == SplitLoop(s, sep, <<>>)

\* s.split(): the words between runs of spaces
Words(s) == SelectSeq(StrSplit(s, <<" ">>), LAMBDA w : w # <<>>)

\* sep.join(list)
RECURSIVE Join(_, _)
Join(list, sep) ==
    IF list = <<>> THEN <<>>
    ELSE IF Len(list) = 1 THEN list[1]
         ELSE list[1] \o sep \o Join(Tail(list), sep)

\* re.sub(r'\s+', ' ', s)
RECURSIVE Collapse(_)
Collapse(s) ==
    IF s = <<>> THEN <<>>
    ELSE IF s[1] \in Whitespace THEN <<" ">> \o Collapse(LStrip(s, Whitespace))
         ELSE <<s[1]>> \o Collapse(Tail(s))

\* s[i] for a Python index i >= -1
At(s, i) == IF i < 0 THEN s[Len(s) + 1 + i] ELSE s[i + 1]

-----------------------------------------------------------------------------
(* NerChunker, entity_linking.py lines 41-198.                             *)

\* self.punct_ext, for the characters of the documents
punct_ext == {".", ",", "!", "?", "\"", " ", "z"}

\* self.russian_letters, for the characters of the documents
russian_letters == {"a"}

\* lines 192-194: the test that leaves the loop of sanitize
SanitizeBreak(t, i) ==
    \/ At(t, i) \in SentenceEnd /\ At(t, i - 1) \in russian_letters
    \/ i > 1 /\ At(t, i) \in SentenceEnd /\ At(t, i - 1) = "\""
             /\ At(t, i - 2) \in russian_letters

\* lines 190-194: the value of i after the loop started at i
RECURSIVE SanitizeLoop(_, _)
SanitizeLoop(t, i) ==
    IF At(t, i) \in punct_ext /\ i > 0
    THEN IF SanitizeBreak(t, i - 1) THEN i - 1 ELSE SanitizeLoop(t, i - 1)
    ELSE i

\* lines 184-198
sanitize(t) ==
    Collapse(IF Len(t) > 0 /\ t[Len(t)] \notin SentenceEnd
             THEN SubSeq(t, 1, SanitizeLoop(t, Len(t) - 1) + 1)
             ELSE t)

\* nltk's sent_tokenize, for the documents considered: a sentence ends at
\* a sentence-ending character followed by a space
RECURSIVE SentLoop(_, _)
SentLoop(s, cur) ==
    IF s = <<>> THEN (IF cur = <<>> THEN <<>> ELSE <<cur>>)
    ELSE IF s[1] = " " /\ cur # <<>> /\ cur[Len(cur)] \in SentenceEnd
         THEN <<cur>> \o SentLoop(Tail(s), <<>>)
         ELSE SentLoop(Tail(s), Append(cur, s[1]))

sent_tokenize(piece) == SentLoop(piece, <<>>)

\* lines 104-105 and 133-134: the number of word pieces of the tokens that
\* self.re_tokenizer finds in s, for a vocabulary of single letters: every
\* character but the space is a piece
TokLen(s) == Cardinality({i \in 1..Len(s) : s[i] # " "})

\* lines 96-101: the sentences of a document
SentencesOf(doc) ==
    LET doc_pieces == StrSplit(doc, <<"\n">>)
        sanitized  == [k \in 1..Len(doc_pieces) |-> sanitize(doc_pieces[k])]
        kept       == SelectSeq(sanitized, LAMBDA piece : Len(piece) > 1)
    IN  Flatten([k \in 1..Len(kept) |-> sent_tokenize(kept[k])])

\* a new list object holding the given spans and sentences
NewLists(heap, offsets, sents) == Append(heap, [offsets |-> offsets, sentences |-> sents])

\* sentences_offsets_list.append(span); sentences_list.append(sentence)
ListsAppend(heap, ref, span, sentence) ==
    [heap EXCEPT ![ref] = [offsets   |-> Append(@.offsets, span),
                           sentences |-> Append(@.sentences, sentence)]]

\* the full slices only
RebatchMutant(list, size) ==
    [jj \in 1..(Len(list) \div size) |->
        SubSeq(list, (jj - 1) * size + 1, Min(jj * size, Len(list)))]

\* lines 175-180: the slices of a list by batch_size
Rebatch(list, size) ==
    LET num_batches == Len(list) \div size + (IF Len(list) % size > 0 THEN 1 ELSE 0)
    IN  [jj \in 1..num_batches |->
            SubSeq(list, (jj - 1) * size + 1, Min(jj * size, Len(list)))]

\* the most documents of a batch given to NerChunker.__call__
MaxChunkDocs == 2
\* the most sentences of such a batch, all documents together
MaxSentences == 2

\* the sentences the documents are made of, for max_seq_len = 5: two short
\* ones, a long one with commas, a long one without comma, a long one whose
\* second comma piece is itself long, words without a final period, nothing
\* at all (an empty paragraph, or an empty document) and two characters that
\* sanitize trims
SentenceKinds ==
    { <<>>,
      <<"z", "z">>,
      <<"a", ".">>,
      <<"a", " ", "a", ".">>,
      <<"a", ",", " ", "a", " ", "a", ",", " ", "a", ".">>,
      <<"a", " ", "a", " ", "a", " ", "a", " ", "a", ".">>,
      <<"a", "a", " ", "a", ",", " ", "a", " ", "a", " ", "a", " ", "a", ".">>,
      <<"a", " ", "z">> }

\* what separates two sentences of a document
Separators == {<<" ">>, <<"\n">>}

\* no paragraph of the document starts with a space
NoLeadingSpace(doc) ==
    \A k \in 1..Len(StrSplit(doc, <<"\n">>)) :
        StrSplit(doc, <<"\n">>)[k] = <<>> \/ StrSplit(doc, <<"\n">>)[k][1] # " "

\* the documents of exactly k sentences
DocsOf(k) ==
    IF k = 0 THEN {<<>>}
    ELSE {doc \in {Flatten([i \in 1..(2 * k - 1) |->
                      IF i % 2 = 1 THEN ks[(i + 1) \div 2] ELSE seps[i \div 2]]) :
                    ks \in [1..k -> SentenceKinds], seps \in [1..(k - 1) -> Separators]} :
             NoLeadingSpace(doc)}

\* the batches of exactly k documents, of at least one sentence each and at
\* most m sentences together
RECURSIVE ChunkBatchesOf(_, _)
ChunkBatchesOf(k, m) ==
    IF k = 0 THEN {<<>>}
    ELSE UNION {{<<d>> \o rest : d \in DocsOf(j), rest \in ChunkBatchesOf(k - 1, m - j)} :
                   j \in 1..(m - k + 1)}

\* NerChunker.__init__ and the locals of __call__, lines 49-89: a chunker with
\* max_seq_len 5 and max_chunk_len 2 is called on a batch of at most
\* MaxChunkDocs documents of at most MaxSentences sentences together
ChkInit ==
    /\ max_seq_len = 5
    /\ max_chunk_len = 2
    /\ batch_size \in {1, 2}
    /\ docs_batch \in UNION {ChunkBatchesOf(k, MaxSentences) : k \in 0..MaxChunkDocs}
    /\ cpc = "doc"
    /\ doc_n = 0
    /\ sentences = <<>>
    /\ sent_i = 0
    /\ sentence_chunks = <<>>
    /\ chunk_i = 0
    /\ text = <<>>
    /\ cur_len = 0
    /\ cur_chunk_len = 0
    /\ start = 0
    /\ lists_heap = <<[offsets |-> <<>>, sentences |-> <<>>]>>
    /\ sentences_offsets_list = 1
    /\ text_batch = <<>>
    /\ nums_batch = <<>>
    /\ sentences_offsets_batch = <<>>
    /\ chunker_out = <<>>
    /\ chunker_exc = "none"

chkConfig == <<max_seq_len, max_chunk_len, batch_size, docs_batch>>
chkBatch == <<text_batch, nums_batch, sentences_offsets_batch>>

\* the same appends, whether t is empty or not
FlushMutant(t) ==
    /\ text_batch' = Append(text_batch, t)
    /\ nums_batch' = Append(nums_batch, doc_n)
    /\ sentences_offsets_batch' = Append(sentences_offsets_batch, sentences_offsets_list)

\* text_batch.append(t), nums_batch.append(n) and the appends of the two
\* current list objects, when t is not empty
Flush(t) ==
    IF t # <<>>
    THEN /\ text_batch' = Append(text_batch, t)
         /\ nums_batch' = Append(nums_batch, doc_n)
         /\ sentences_offsets_batch' = Append(sentences_offsets_batch, sentences_offsets_list)
    ELSE UNCHANGED chkBatch

\* lines 90-101: a document is taken up
ChkDoc ==
    /\ cpc = "doc"
    /\ UNCHANGED <<lnkVars, rbdVars, asmVars, fusVars, ctxVars>>
    /\ doc_n < Len(docs_batch)
    /\ start' = 0
    /\ text' = <<>>
    /\ lists_heap' = NewLists(lists_heap, <<>>, <<>>)
    /\ sentences_offsets_list' = Len(lists_heap) + 1
    /\ cur_len' = 0
    /\ sentences' = SentencesOf(docs_batch[doc_n + 1])
    /\ sent_i' = 0
    /\ cpc' = "sentence"
    /\ UNCHANGED <<chkConfig, chkBatch, doc_n, sentence_chunks, chunk_i, cur_chunk_len,
                   chunker_out, chunker_exc>>

\* lines 106-112: the sentence fits the current chunk
SentenceFits(sentence, sentence_len) ==
    /\ text' = text \o sentence \o <<" ">>
    /\ cur_len' = cur_len + sentence_len
    /\ lists_heap' = ListsAppend(lists_heap, sentences_offsets_list,
                                 <<start, start + Len(sentence)>>, sentence)
    /\ start' = start + Len(sentence) + 1
    /\ sent_i' = sent_i + 1
    /\ UNCHANGED <<chkBatch, sentences_offsets_list, cpc, sentence_chunks, chunk_i,
                   chunker_exc>>

\* lines 113-131 and 158-160: the sentence does not fit; stripped is
\* text.strip()
SentenceOverflows(sentence, sentence_len, stripped) ==
    /\ Flush(stripped)
    /\ IF sentence_len < max_seq_len
       THEN /\ text' = sentence \o <<" ">>
            /\ cur_len' = sentence_len
            /\ lists_heap' = NewLists(lists_heap, <<<<0, Len(sentence)>>>>, <<sentence>>)
            /\ sentences_offsets_list' = Len(lists_heap) + 1
            /\ start' = Len(sentence) + 1
            /\ sent_i' = sent_i + 1
            /\ UNCHANGED <<cpc, sentence_chunks, chunk_i, chunker_exc>>
       ELSE /\ text' = stripped
            /\ IF \E i \in 1..Len(sentence) : sentence[i] = ","
               THEN /\ sentence_chunks' = StrSplit(sentence, <<",", " ">>)
                    /\ chunk_i' = 0
                    /\ cpc' = "chunk"
                    /\ UNCHANGED chunker_exc
               ELSE \* line 160 reads self.max_chunk, which NerChunker has not
                    /\ cpc' = "raised"
                    /\ chunker_exc' = "AttributeError"
                    /\ UNCHANGED <<sentence_chunks, chunk_i>>
            /\ UNCHANGED <<cur_len, lists_heap, sentences_offsets_list, start, sent_i>>

\* lines 102-131 and 158-160: the next sentence of the document
ChkSentence ==
    /\ cpc = "sentence"
    /\ UNCHANGED <<lnkVars, rbdVars, asmVars, fusVars, ctxVars>>
    /\ sent_i < Len(sentences)
    /\ cur_chunk_len' = 0
    /\ IF cur_len + TokLen(sentences[sent_i + 1]) < max_seq_len
       THEN SentenceFits(sentences[sent_i + 1], TokLen(sentences[sent_i + 1]))
       ELSE SentenceOverflows(sentences[sent_i + 1], TokLen(sentences[sent_i + 1]),
                              StrStrip(text, Whitespace))
    /\ UNCHANGED <<chkConfig, doc_n, sentences, chunker_out>>

\* lines 135-141: the comma piece fits the current chunk
PieceFits(chunk, chunk_len) ==
    /\ text' = text \o chunk \o <<",", " ">>
    /\ cur_chunk_len' = cur_chunk_len + chunk_len + 1
    /\ lists_heap' = ListsAppend(lists_heap, sentences_offsets_list,
                                 <<start, start + Len(chunk) + 1>>, chunk)
    /\ start' = start + Len(chunk) + 2
    /\ UNCHANGED <<chkBatch, sentences_offsets_list>>

\* lines 142-157: the comma piece does not fit; cut is the piece cut to
\* max_chunk_len words
PieceOverflows(sentence, chunk_len, cut) ==
    /\ Flush(StrStrip(StrStrip(text, Whitespace), {","}))
    /\ text' = cut \o <<",", " ">>
    /\ cur_chunk_len' = chunk_len
    /\ lists_heap' = NewLists(lists_heap, <<<<0, Len(cut)>>>>, <<sentence>>)
    /\ sentences_offsets_list' = Len(lists_heap) + 1
    /\ start' = Len(cut) + 1

\* lines 132-157: the next comma piece of the sentence
ChkChunk ==
    /\ cpc = "chunk"
    /\ UNCHANGED <<lnkVars, rbdVars, asmVars, fusVars, ctxVars>>
    /\ chunk_i < Len(sentence_chunks)
    /\ IF cur_chunk_len + TokLen(sentence_chunks[chunk_i + 1]) < max_seq_len
       THEN PieceFits(sentence_chunks[chunk_i + 1], TokLen(sentence_chunks[chunk_i + 1]))
       ELSE PieceOverflows(sentences[sent_i + 1], TokLen(sentence_chunks[chunk_i + 1]),
                           Join(Take(Words(sentence_chunks[chunk_i + 1]), max_chunk_len),
                                <<" ">>))
    /\ chunk_i' = chunk_i + 1
    /\ IF chunk_i + 1 = Len(sentence_chunks)
       THEN cpc' = "sentence" /\ sent_i' = sent_i + 1
       ELSE UNCHANGED <<cpc, sent_i>>
    /\ UNCHANGED <<chkConfig, doc_n, sentences, sentence_chunks, cur_len, chunker_out,
                   chunker_exc>>

\* lines 168-173: the rest of the document is emitted
ChkEndDoc ==
    /\ cpc = "sentence"
    /\ UNCHANGED <<lnkVars, rbdVars, asmVars, fusVars, ctxVars>>
    /\ sent_i = Len(sentences)
    /\ text' = StrStrip(StrStrip(text, Whitespace), {","})
    /\ Flush(StrStrip(StrStrip(text, Whitespace), {","}))
    /\ doc_n' = doc_n + 1
    /\ cpc' = "doc"
    /\ UNCHANGED <<chkConfig, sentences, sent_i, sentence_chunks, chunk_i, cur_len,
                   cur_chunk_len, start, lists_heap, sentences_offsets_list,
                   chunker_out, chunker_exc>>

\* lines 175-182: the chunks are cut into batches and returned
ChkReturn ==
    /\ cpc = "doc"
    /\ UNCHANGED <<lnkVars, rbdVars, asmVars, fusVars, ctxVars>>
    /\ doc_n = Len(docs_batch)
    /\ chunker_out' =
           [text_batch_list |-> Rebatch(text_batch, batch_size),
            nums_batch_list |-> Rebatch(nums_batch, batch_size),
            sentences_offsets_batch_list |->
                Rebatch([k \in 1..Len(sentences_offsets_batch) |->
                            lists_heap[sentences_offsets_batch[k]].offsets], batch_size),
            sentences_batch_list |->
                Rebatch([k \in 1..Len(sentences_offsets_batch) |->
                            lists_heap[sentences_offsets_batch[k]].sentences], batch_size)]
    /\ cpc' = "done"
    /\ UNCHANGED <<chkConfig, chkBatch, doc_n, sentences, sent_i, sentence_chunks,
                   chunk_i, text, cur_len, cur_chunk_len, start, lists_heap,
                   sentences_offsets_list, chunker_exc>>

ChkNext ==
    \/ ChkDoc
    \/ ChkSentence
    \/ ChkChunk
    \/ ChkEndDoc
    \/ ChkReturn

\* no call of NerChunker.__call__ is followed
ChkIdle ==
    /\ max_seq_len = 0
    /\ max_chunk_len = 0
    /\ batch_size = 0
    /\ docs_batch = <<>>
    /\ cpc = "off"
    /\ doc_n = 0
    /\ sentences = <<>>
    /\ sent_i = 0
    /\ sentence_chunks = <<>>
    /\ chunk_i = 0
    /\ text = <<>>
    /\ cur_len = 0
    /\ cur_chunk_len = 0
    /\ start = 0
    /\ lists_heap = <<>>
    /\ sentences_offsets_list = 0
    /\ text_batch = <<>>
    /\ nums_batch = <<>>
    /\ sentences_offsets_batch = <<>>
    /\ chunker_out = <<>>
    /\ chunker_exc = "none"

-----------------------------------------------------------------------------
(* The merge of the chunks' mentions into documents: NerChunkModel.__call__ *)
(* lines 142-184 of entity_linking_sep.py, and EntityLinker.__call__ lines  *)
(* 439-483 of entity_linking.py.  The two loops are the same but for the    *)
(* length a chunk adds to text_len_sum and for the lists carried along:     *)
(* NerChunkModel shifts character spans and carries the sentences,          *)
(* EntityLinker shifts token positions and carries the entity ids and       *)
(* confidences next to the mentions.  A chunk is a record of the values the *)
(* inner zip yields: doc_num, text_len, the mentions' names, tags and       *)
(* positions, and the sentences' spans; every chunk has list objects of its *)
(* own.                                                                     *)

\* the most chunks of a call
MaxChunks == 4
\* the most documents of a call
MaxAsmDocs == 3

AsmClasses == {"NerChunkModel", "EntityLinker"}

\* the chunks the tagger may report for document doc_num: a shorter and a
\* longer chunk, without mention or with one mention at positions 0 to 2
ChunksOf(doc_num) ==
    {[doc_num |-> doc_num, text_len |-> len, entity_substr |-> m.substr, tags |-> m.tags,
      entity_offsets |-> m.offsets, sentences_offsets |-> <<<<0, len>>>>] :
        len \in {3, 5},
        m \in {[substr |-> <<>>, tags |-> <<>>, offsets |-> <<>>],
               [substr |-> <<"paris">>, tags |-> <<"LOC">>, offsets |-> <<<<0, 2>>>>]}}

\* the chunk lists of exactly k chunks whose document numbers start at lo or
\* above, never decrease, and stay below MaxAsmDocs
RECURSIVE ChunkListsFrom(_, _)
ChunkListsFrom(k, lo) ==
    IF k = 0 THEN {<<>>}
    ELSE UNION {{<<c>> \o rest : c \in ChunksOf(d), rest \in ChunkListsFrom(k - 1, d)} :
                   d \in lo..(MaxAsmDocs - 1)}

\* the fewest documents a chunk list can come from: one more than its last
\* document number
DocsNeeded(chunks) == IF chunks = <<>> THEN 0 ELSE chunks[Len(chunks)].doc_num + 1

\* the locals of the merge, sep lines 142-147 (entity_linking.py lines
\* 439-444), for a list of at most MaxChunks chunks cut from asm_n_docs
\* documents, of which any may have given no chunk
AsmInit ==
    /\ asm_class \in AsmClasses
    /\ asm_pc = "merge"
    /\ asm_chunks \in UNION {ChunkListsFrom(k, 0) : k \in 0..MaxChunks}
    /\ asm_n_docs \in DocsNeeded(asm_chunks)..MaxAsmDocs
    /\ asm_k = 0
    /\ cur_doc_num = 0
    /\ text_len_sum = 0
    /\ doc_entity_substr = <<>>
    /\ doc_tags = <<>>
    /\ doc_entity_offsets = <<>>
    /\ doc_sentences_offsets = <<>>
    /\ doc_entity_substr_batch = <<>>
    /\ doc_tags_batch = <<>>
    /\ doc_entity_offsets_batch = <<>>
    /\ doc_sentences_offsets_batch = <<>>

asmBatch == <<doc_entity_substr_batch, doc_tags_batch, doc_entity_offsets_batch,
              doc_sentences_offsets_batch>>

\* the length a chunk adds to text_len_sum: sep line 163, text_len + 1;
\* entity_linking.py line 460, text_len
Consumed(class, text_len) ==
    IF class = "NerChunkModel" THEN text_len + 1 ELSE text_len

\* the positions of a chunk, every one shifted by shift
Shifted(positions, shift) ==
    [i \in 1..Len(positions) |-> [j \in 1..Len(positions[i]) |-> positions[i][j] + shift]]

\* sep lines 155-163, entity_linking.py lines 453-460: a further chunk of
\* the current document
AsmSameDoc ==
    /\ asm_pc = "merge"
    /\ UNCHANGED <<lnkVars, rbdVars, chkVars, fusVars, ctxVars>>
    /\ asm_k < Len(asm_chunks)
    /\ asm_chunks[asm_k + 1].doc_num = cur_doc_num
    /\ doc_entity_substr' = doc_entity_substr \o asm_chunks[asm_k + 1].entity_substr
    /\ doc_tags' = doc_tags \o asm_chunks[asm_k + 1].tags
    /\ doc_entity_offsets' =
           doc_entity_offsets \o Shifted(asm_chunks[asm_k + 1].entity_offsets, text_len_sum)
    /\ doc_sentences_offsets' =
           doc_sentences_offsets
               \o Shifted(asm_chunks[asm_k + 1].sentences_offsets, text_len_sum)
    /\ text_len_sum' = text_len_sum + Consumed(asm_class, asm_chunks[asm_k + 1].text_len)
    /\ asm_k' = asm_k + 1
    /\ UNCHANGED <<asm_class, asm_pc, asm_chunks, asm_n_docs, cur_doc_num, asmBatch>>

\* sep lines 164-176, entity_linking.py lines 461-473: the first chunk of
\* another document
AsmNewDoc ==
    /\ asm_pc = "merge"
    /\ UNCHANGED <<lnkVars, rbdVars, chkVars, fusVars, ctxVars>>
    /\ asm_k < Len(asm_chunks)
    /\ asm_chunks[asm_k + 1].doc_num # cur_doc_num
    /\ doc_entity_substr_batch' = Append(doc_entity_substr_batch, doc_entity_substr)
    /\ doc_tags_batch' = Append(doc_tags_batch, doc_tags)
    /\ doc_entity_offsets_batch' = Append(doc_entity_offsets_batch, doc_entity_offsets)
    /\ doc_sentences_offsets_batch' = Append(doc_sentences_offsets_batch, doc_sentences_offsets)
    /\ doc_entity_substr' = asm_chunks[asm_k + 1].entity_substr
    /\ doc_tags' = asm_chunks[asm_k + 1].tags
    /\ doc_entity_offsets' = asm_chunks[asm_k + 1].entity_offsets
    /\ doc_sentences_offsets' = asm_chunks[asm_k + 1].sentences_offsets
    /\ cur_doc_num' = asm_chunks[asm_k + 1].doc_num
    /\ text_len_sum' = 0
    /\ asm_k' = asm_k + 1
    /\ UNCHANGED <<asm_class, asm_pc, asm_chunks, asm_n_docs>>

\* sep lines 177-184, entity_linking.py lines 474-483: the last document is
\* appended and the batches are returned
AsmReturn ==
    /\ asm_pc = "merge"
    /\ UNCHANGED <<lnkVars, rbdVars, chkVars, fusVars, ctxVars>>
    /\ asm_k = Len(asm_chunks)
    /\ doc_entity_substr_batch' = Append(doc_entity_substr_batch, doc_entity_substr)
    /\ doc_tags_batch' = Append(doc_tags_batch, doc_tags)
    /\ doc_entity_offsets_batch' = Append(doc_entity_offsets_batch, doc_entity_offsets)
    /\ doc_sentences_offsets_batch' = Append(doc_sentences_offsets_batch, doc_sentences_offsets)
    /\ asm_pc' = "done"
    /\ UNCHANGED <<asm_class, asm_chunks, asm_n_docs, asm_k, cur_doc_num, text_len_sum,
                   doc_entity_substr, doc_tags, doc_entity_offsets, doc_sentences_offsets>>

AsmNext ==
    \/ AsmSameDoc
    \/ AsmNewDoc
    \/ AsmReturn

\* no merge is followed
AsmIdle ==
    /\ asm_class = "none"
    /\ asm_pc = "off"
    /\ asm_chunks = <<>>
    /\ asm_n_docs = 0
    /\ asm_k = 0
    /\ cur_doc_num = 0
    /\ text_len_sum = 0
    /\ doc_entity_substr = <<>>
    /\ doc_tags = <<>>
    /\ doc_entity_offsets = <<>>
    /\ doc_sentences_offsets = <<>>
    /\ doc_entity_substr_batch = <<>>
    /\ doc_tags_batch = <<>>
    /\ doc_entity_offsets_batch = <<>>
    /\ doc_sentences_offsets_batch = <<>>

-----------------------------------------------------------------------------
(* The scoring of one mention in EntityLinkerSep.link_entities, lines      *)
(* 533-582: every word of the mention is an indexed word (score 1.0) or is *)
(* given the neighbours self.faiss_index.search found for it, with their   *)
(* distances; sum_scores then fuses the scores of the words.  The words of *)
(* the mention name one entity, Q90, under a label of fus_label_len words. *)

\* the most words of a mention
MaxFusWords == 2
\* the most words of a label
MaxLabelLen == 2
\* the largest substr_len
MaxSubstrLen == 2

\* what faiss returns as D for a neighbour, in 1/Scale.  With
\* num_faiss_cells > 1 the index is an IndexIVFFlat (line 291), whose metric
\* is the squared L2 distance: 0 to 2 for the normalized tf-idf vectors.
\* Otherwise it is an IndexFlatIP (line 294): the inner product, 0 to 1.
FaissD(cells) ==
    IF cells > 1 THEN {0, Scale \div 2, Scale, (3 * Scale) \div 2, 2 * Scale}
    ELSE {0, Scale \div 2, Scale}

\* the words of a mention: an indexed word, or a word with one neighbour
FusWordsOf(cells) ==
    {[flag |-> TRUE, D |-> <<>>]} \cup {[flag |-> FALSE, D |-> <<d>>] : d \in FaissD(cells)}

\* lines 535-544: scores_list of a word
ScoresList(w, cells) ==
    IF w.flag THEN <<Scale>>
    ELSE IF cells > 1 THEN [j \in 1..Len(w.D) |-> Scale - w.D[j]]
    ELSE w.D

\* lines 561-566: the largest score of a list of scores
RECURSIVE LargestScore(_)
LargestScore(scores) ==
    IF Len(scores) = 1 THEN scores[1]
    ELSE Max(scores[1], LargestScore(Tail(scores)))

FusInit ==
    /\ fus_pc = "word"
    /\ num_faiss_cells \in {1, 50}
    /\ fus_substr_len \in 0..MaxSubstrLen
    /\ fus_label_len \in 1..MaxLabelLen
    /\ fus_words \in UNION {[1..n -> FusWordsOf(num_faiss_cells)] : n \in 1..MaxFusWords}
    /\ fus_i = 0
    /\ fus_candidates = <<>>
    /\ fus_scores = <<>>

\* lines 533-571 and 573-577: the next word's best score for the entity is
\* put into candidate_entities_dict[index]
FusWord ==
    /\ fus_pc = "word"
    /\ UNCHANGED <<lnkVars, rbdVars, chkVars, asmVars, ctxVars>>
    /\ fus_i < Len(fus_words)
    /\ fus_candidates' =
           Append(fus_candidates,
                  [id |-> "Q90", len |-> fus_label_len,
                   score |-> LargestScore(ScoresList(fus_words[fus_i + 1], num_faiss_cells))])
    /\ fus_i' = fus_i + 1
    /\ UNCHANGED <<fus_pc, num_faiss_cells, fus_substr_len, fus_label_len, fus_words,
                   fus_scores>>

\* lines 579-582: sum_scores(candidate_entities, substr_len)
FusSum ==
    /\ fus_pc = "word"
    /\ UNCHANGED <<lnkVars, rbdVars, chkVars, asmVars, ctxVars>>
    /\ fus_i = Len(fus_words)
    /\ fus_scores' = sum_scores(fus_candidates, fus_substr_len)
    /\ fus_pc' = "done"
    /\ UNCHANGED <<num_faiss_cells, fus_substr_len, fus_label_len, fus_words, fus_i,
                   fus_candidates>>

FusNext ==
    \/ FusWord
    \/ FusSum

\* no mention is scored on its own
FusIdle ==
    /\ fus_pc = "off"
    /\ num_faiss_cells = 0
    /\ fus_substr_len = 0
    /\ fus_label_len = 0
    /\ fus_words = <<>>
    /\ fus_i = 0
    /\ fus_candidates = <<>>
    /\ fus_scores = <<>>

-----------------------------------------------------------------------------
(* The context of one mention in EntityLinkerSep.rank_by_description,      *)
(* lines 663-717.                                                          *)

\* the most sentences of a document
MaxCtxSentences == 3

\* the characters matched by \w in the sentences considered
WordChars == {"a", "E", "N", "T"}

\* len(re.findall(self.re_tokenizer, s)) for the pattern [\w']+|[^\w ]: the
\* runs of word characters and every other character but the space
ReTokLen(s) ==
    Cardinality({i \in 1..Len(s) :
        \/ s[i] \notin WordChars \cup {" "}
        \/ s[i] \in WordChars /\ (i = 1 \/ s[i - 1] \notin WordChars)})

\* s[a:b] for 0 <= a and 0 <= b
PySlice(s, a, b) ==
    IF Min(b, Len(s)) <= a THEN <<>> ELSE SubSeq(s, a + 1, Min(b, Len(s)))

\* the marker put around or in place of the mention
EntMarker == <<"[", "E", "N", "T", "]">>

\* the sentences of the documents: of 2, 3 and 5 tokens
CtxSentenceKinds ==
    { <<"a", ".">>,
      <<"a", " ", "a", ".">>,
      <<"a", " ", "a", " ", "a", " ", "a", ".">> }

\* the spans of the sentences in a document that joins them with one space
RECURSIVE SpansFrom(_, _)
SpansFrom(sents, at) ==
    IF sents = <<>> THEN <<>>
    ELSE <<<<at, at + Len(Head(sents))>>>> \o SpansFrom(Tail(sents), at + Len(Head(sents)) + 1)

\* lines 667-678: the number (from 0) of the first sentence whose span holds
\* the mention, or -1
RECURSIVE FindSentence(_, _, _)
FindSentence(offsets, ent, num) ==
    IF num >= Len(offsets) THEN -1
    ELSE IF ent[1] >= offsets[num + 1][1] /\ ent[2] <= offsets[num + 1][2] THEN num
    ELSE FindSentence(offsets, ent, num + 1)

\* lines 683-692: the sentence, clipped around the mention, with the marker
MarkedContext(sent, rel_start, rel_end) ==
    LET clipped == Len(sent) > max_text_len
        start_of_sentence == IF clipped THEN Max(rel_start - max_text_len \div 2, 0) ELSE 0
        end_of_sentence == IF clipped THEN Min(rel_end + max_text_len \div 2, Len(sent))
                           ELSE Len(sent)
    IN  IF include_mention
        THEN PySlice(sent, start_of_sentence, rel_start) \o EntMarker \o
             PySlice(sent, rel_start, rel_end) \o EntMarker \o
             PySlice(sent, rel_end, end_of_sentence)
        ELSE PySlice(sent, start_of_sentence, rel_start) \o EntMarker \o
             PySlice(sent, rel_end, end_of_sentence)

\* room up to and including max_paragraph_len
HasRoomMutant(cur, sent_len) == cur + sent_len <= max_paragraph_len

\* lines 701 and 708: whether a sentence of sent_len tokens is added
HasRoom(cur, sent_len) == cur + sent_len < max_paragraph_len

CtxInit ==
    /\ ctx_pc = "find"
    /\ full_paragraph \in BOOLEAN
    /\ max_paragraph_len \in {5, 9}
    /\ max_text_len \in {4, 300}
    /\ include_mention \in BOOLEAN
    /\ ctx_sentences_list \in UNION {[1..n -> CtxSentenceKinds] : n \in 1..MaxCtxSentences}
    /\ ctx_sentences_offsets = SpansFrom(ctx_sentences_list, 0)
    /\ ctx_entity_offsets \in
           {<<ctx_sentences_offsets[k][1], ctx_sentences_offsets[k][1] + 1>> :
               k \in 1..Len(ctx_sentences_list)}
           \cup {<<ctx_sentences_offsets[Len(ctx_sentences_list)][2] + 1,
                   ctx_sentences_offsets[Len(ctx_sentences_list)][2] + 2>>}
    /\ found_sentence = <<>>
    /\ found_sentence_num = 0
    /\ rel_start_offset = 0
    /\ rel_end_offset = 0
    /\ ctx_context = <<>>
    /\ cur_sent_len = 0
    /\ first_sentence_num = 0
    /\ last_sentence_num = 0
    /\ ctx_result = <<>>

ctxConfig == <<full_paragraph, max_paragraph_len, max_text_len, include_mention,
               ctx_sentences_list, ctx_sentences_offsets, ctx_entity_offsets>>
ctxFound == <<found_sentence, found_sentence_num, rel_start_offset, rel_end_offset>>

\* lines 667-678: the mention's sentence is looked for
CtxFind ==
    /\ ctx_pc = "find"
    /\ UNCHANGED <<lnkVars, rbdVars, chkVars, asmVars, fusVars>>
    /\ LET num == FindSentence(SubSeq(ctx_sentences_offsets, 1,
                                      Min(Len(ctx_sentences_offsets), Len(ctx_sentences_list))),
                               ctx_entity_offsets, 0)
       IN  IF num >= 0
           THEN /\ found_sentence' = ctx_sentences_list[num + 1]
                /\ found_sentence_num' = num
                /\ rel_start_offset' = ctx_entity_offsets[1] - ctx_sentences_offsets[num + 1][1]
                /\ rel_end_offset' = ctx_entity_offsets[2] - ctx_sentences_offsets[num + 1][1]
           ELSE UNCHANGED ctxFound
    /\ ctx_pc' = "mark"
    /\ UNCHANGED <<ctxConfig, ctx_context, cur_sent_len, first_sentence_num,
                   last_sentence_num, ctx_result>>

\* lines 681-697 and 717: the context of the sentence found, if any
CtxMark ==
    /\ ctx_pc = "mark"
    /\ UNCHANGED <<lnkVars, rbdVars, chkVars, asmVars, fusVars>>
    /\ IF found_sentence = <<>>
       THEN /\ ctx_pc' = "done"
            /\ UNCHANGED <<ctx_context, cur_sent_len, first_sentence_num,
                           last_sentence_num, ctx_result>>
       ELSE /\ ctx_context' =
                   <<MarkedContext(found_sentence, rel_start_offset, rel_end_offset)>>
            /\ IF full_paragraph
               THEN /\ cur_sent_len' = ReTokLen(ctx_context'[1])
                    /\ first_sentence_num' = found_sentence_num
                    /\ last_sentence_num' = found_sentence_num
                    /\ ctx_pc' = "extend"
                    /\ UNCHANGED ctx_result
               ELSE /\ ctx_result' = ctx_context'[1]
                    /\ ctx_pc' = "done"
                    /\ UNCHANGED <<cur_sent_len, first_sentence_num, last_sentence_num>>
    /\ UNCHANGED <<ctxConfig, ctxFound>>

\* lines 698-717: one turn of the loop: the sentence after the run and then
\* the sentence before it are added if there is room; when none is added
\* the loop is left and the parts are joined
CtxExtend ==
    /\ ctx_pc = "extend"
    /\ UNCHANGED <<lnkVars, rbdVars, chkVars, asmVars, fusVars>>
    /\ LET last_sentence_len ==
               IF last_sentence_num < Len(ctx_sentences_list) - 1
               THEN ReTokLen(ctx_sentences_list[last_sentence_num + 2]) ELSE 0
           add_last == /\ last_sentence_num < Len(ctx_sentences_list) - 1
                       /\ HasRoom(cur_sent_len, last_sentence_len)
           len1 == IF add_last THEN cur_sent_len + last_sentence_len ELSE cur_sent_len
           context1 == IF add_last
                       THEN Append(ctx_context, ctx_sentences_list[last_sentence_num + 2])
                       ELSE ctx_context
           first_sentence_len ==
               IF first_sentence_num > 0 THEN ReTokLen(ctx_sentences_list[first_sentence_num])
               ELSE 0
           add_first == first_sentence_num > 0 /\ HasRoom(len1, first_sentence_len)
       IN  /\ last_sentence_num' = IF add_last THEN last_sentence_num + 1 ELSE last_sentence_num
           /\ first_sentence_num' =
                  IF add_first THEN first_sentence_num - 1 ELSE first_sentence_num
           /\ cur_sent_len' = IF add_first THEN len1 + first_sentence_len ELSE len1
           /\ ctx_context' = IF add_first
                             THEN <<ctx_sentences_list[first_sentence_num]>> \o context1
                             ELSE context1
           /\ IF add_last \/ add_first
              THEN UNCHANGED <<ctx_pc, ctx_result>>
              ELSE /\ ctx_pc' = "done"
                   /\ ctx_result' = Join(ctx_context, <<" ">>)
    /\ UNCHANGED <<ctxConfig, ctxFound>>

CtxNext ==
    \/ CtxFind
    \/ CtxMark
    \/ CtxExtend

\* no context is made
CtxIdle ==
    /\ ctx_pc = "off"
    /\ full_paragraph = FALSE
    /\ max_paragraph_len = 0
    /\ max_text_len = 0
    /\ include_mention = FALSE
    /\ ctx_sentences_list = <<>>
    /\ ctx_sentences_offsets = <<>>
    /\ ctx_entity_offsets = <<>>
    /\ found_sentence = <<>>
    /\ found_sentence_num = 0
    /\ rel_start_offset = 0
    /\ rel_end_offset = 0
    /\ ctx_context = <<>>
    /\ cur_sent_len = 0
    /\ first_sentence_num = 0
    /\ last_sentence_num = 0
    /\ ctx_result = <<>>

-----------------------------------------------------------------------------
(* The specifications.                                                     *)

\* a linker is constructed and loaded; nothing else runs
LinkerSepInit == LnkInit /\ RbdIdle /\ ChkIdle /\ AsmIdle /\ FusIdle /\ CtxIdle

\* calls of EntityLinkerSep.__call__
SpecLinkerSep == LinkerSepInit /\ [][LnkNext]_vars

\* rank_by_description is entered; nothing else runs
RankInit == RbdInit /\ LnkIdle /\ ChkIdle /\ AsmIdle /\ FusIdle /\ CtxIdle

\* calls of EntityLinkerSep.rank_by_description
SpecRank == RankInit /\ [][RbdNext]_vars

\* a chunker is constructed and called; nothing else runs
ChunkerInit == ChkInit /\ LnkIdle /\ RbdIdle /\ AsmIdle /\ FusIdle /\ CtxIdle

\* calls of NerChunker.__call__
SpecChunker == ChunkerInit /\ [][ChkNext]_vars

\* a merge is entered; nothing else runs
AssemblerInit == AsmInit /\ LnkIdle /\ RbdIdle /\ ChkIdle /\ FusIdle /\ CtxIdle

\* the merges of NerChunkModel.__call__ and EntityLinker.__call__
SpecAssembler == AssemblerInit /\ [][AsmNext]_vars

\* the words of a mention are scored; nothing else runs
FusionInit == FusInit /\ LnkIdle /\ RbdIdle /\ ChkIdle /\ AsmIdle /\ CtxIdle

\* the scoring of a mention by link_entities and sum_scores
SpecFusion == FusionInit /\ [][FusNext]_vars

\* the context of a mention is made; nothing else runs
ContextInit == CtxInit /\ LnkIdle /\ RbdIdle /\ ChkIdle /\ AsmIdle /\ FusIdle

\* the making of a context in rank_by_description; the loop's turns follow
\* one another without pause
SpecContext == ContextInit /\ [][CtxNext]_vars /\ WF_vars(CtxNext)

-----------------------------------------------------------------------------
(* Properties of EntityLinkerSep.__call__.                                 *)

\* the text holds a deny-listed token (stated on the vocabulary, not through
\* the linker's own test)
DenyListed(mention) == \E i \in 1..Len(mention) : mention[i] \in {"ooo", "oooh"}

\* the text keeps no word: every word is a stop-word or empty
KeepsNoWord(mention) == \A i \in 1..Len(mention) : mention[i] \in stopwords \/ mention[i] = ""

\* the positions of the returned lists of document d that hold the mention
\* with the given offsets
PositionsOf(d, offsets) == {k \in 1..Len(out[d].offsets) : out[d].offsets[k] = offsets}

\* the returned ranking at position k of document d is the not-found
\* sentinel with confidence (0.0, 0, 0.0)
IsSentinelAt(d, k) ==
    /\ k <= Len(out[d].ids)
    /\ k <= Len(out[d].conf)
    /\ out[d].ids[k].ids = <<not_found_str>>
    /\ out[d].conf[k].confs = <<ZeroConf>>

\* C1: when the call returns, every document's list of ranking results has
\* exactly one entry per input mention of that document.
C1_OneResultPerMention ==
    lpc = "done" =>
        \A d \in 1..Len(entity_substr_batch) :
            /\ Len(out[d].ids) = Len(entity_substr_batch[d])
            /\ Len(out[d].conf) = Len(entity_substr_batch[d])

C3_ExactMatchFirst ==
    (lpc = "done" /\ word_to_idlist = "scenario" /\ use_descriptions
        /\ entity_ranker = "sure") =>
        \A d \in 1..Len(entity_substr_batch) : \A m \in 1..Len(entity_substr_batch[d]) :
            (entity_substr_batch[d][m] = <<"paris">> /\ tags_batch[d][m] = "LOC") =>
                \A k \in PositionsOf(d, entity_offsets_batch[d][m]) :
                    /\ k <= Len(out[d].ids)
                    /\ out[d].ids[k].ids # <<>>
                    /\ out[d].ids[k].ids[1] = "Q90"
                    /\ out[d].conf[k].confs[1] = ScoreConf(<<100, 100, 90>>)

\* C4: the returned sequences list the mentions in the order in which they
\* were passed in.
C4_InputOrderKept ==
    lpc = "done" =>
        \A d \in 1..Len(entity_substr_batch) :
            /\ out[d].substr = entity_substr_batch[d]
            /\ out[d].offsets = entity_offsets_batch[d]
            /\ out[d].tags = tags_batch[d]

\* C5: no exception leaves a linker call.
C5_NoException == exc = "none" /\ lpc # "raised"

\* C6: a mention that is not deny-listed and keeps no word resolves to the
\* not-found sentinel: the call returns, and the ranking at the mention's
\* position is the sentinel.
C6_NoWordIsNotFound ==
    lpc \in {"done", "raised"} =>
        \A d \in 1..Len(entity_substr_batch) : \A m \in 1..Len(entity_substr_batch[d]) :
            (~DenyListed(entity_substr_batch[d][m])
                /\ KeepsNoWord(entity_substr_batch[d][m])) =>
                /\ lpc = "done"
                /\ \A k \in PositionsOf(d, entity_offsets_batch[d][m]) : IsSentinelAt(d, k)

\* what a call of __call__ on document d of the batch alone, as a batch of one
\* document, gives for its ordinary mentions: `index` is unbound on entry,
\* word_count starts at 0 and the faiss results are grouped for one document
AloneLinked(d) ==
    LET eb == EntriesBatch(word_to_idlist, <<fnd_batch[d]>>)
        index_after == IndexAfter(eb[1], Unbound)
    IN  IF fnd_batch[d].substr = <<>> THEN [exc |-> "none", ids |-> <<>>, conf |-> <<>>]
        ELSE IF index_after = Unbound
        THEN [exc |-> "UnboundLocalError", ids |-> <<>>, conf |-> <<>>]
        ELSE LET r == LinkedDocFrom(WordsBatch(<<fnd_batch[d]>>)[1], fnd_batch[d].offsets,
                                    fnd_batch[d].tags,
                                    CandidateDict(eb[1], FndWords(eb[1]), DIBatch(eb)[1],
                                                  word_to_idlist, index_after),
                                    entity_ranker, use_descriptions, num_entities_to_return)
             IN  [exc |-> "none", ids |-> r.ids, conf |-> r.conf]

\* C12: when a call on a batch has returned, every document's returned ids
\* and confidences are the ones a call on that document alone returns.
C12_BatchIndependent ==
    lpc = "done" =>
        \A d \in 1..Len(entity_substr_batch) :
            /\ AloneLinked(d).exc = "none"
            /\ out[d].ids = nf_batch[d].ids \o AloneLinked(d).ids
            /\ out[d].conf = nf_batch[d].conf \o AloneLinked(d).conf

\* the id is the sentinel, or an entity of the tag's type set or of "AMB"
TypeCompatible(id, tag) ==
    \/ id = not_found_str
    \/ id \in entities_types_sets(tag) \cup entities_types_sets("AMB")

\* C13: every id of the ranking that link_entities pairs with an ordinary
\* mention, and every id of the ranking returned at a mention's position,
\* is of the type set of that mention's tag or of the "AMB" set.
C13_TypeCompatible ==
    /\ \A d \in 1..Len(fnd_entity_ids_batch) : \A k \in 1..Len(fnd_entity_ids_batch[d]) :
           \A j \in 1..Len(fnd_entity_ids_batch[d][k].ids) :
               TypeCompatible(fnd_entity_ids_batch[d][k].ids[j], fnd_batch[d].tags[k])
    /\ lpc = "done" =>
           \A d \in 1..Len(out) : \A k \in 1..Len(out[d].ids) :
               \A j \in 1..Len(out[d].ids[k].ids) :
                   TypeCompatible(out[d].ids[k].ids[j], out[d].tags[k])

\* C14: in every document's returned mention list the offsets do not
\* decrease from one mention to the next (the mentions are passed in with
\* increasing offsets).
C14_OffsetsNonDecreasing ==
    lpc = "done" =>
        \A d \in 1..Len(out) : \A k \in 1..(Len(out[d].offsets) - 1) :
            /\ out[d].offsets[k][1] <= out[d].offsets[k + 1][1]
            /\ out[d].offsets[k][2] <= out[d].offsets[k + 1][2]

\* C16: when a call has returned, every mention of every document has a
\* ranking of at least one and at most num_entities_to_return entries, and
\* with num_entities_to_return = 1 the ranking is one bare id.
C16_RankingSize ==
    lpc = "done" =>
        \A d \in 1..Len(out) :
            /\ Len(out[d].ids) = Len(entity_substr_batch[d])
            /\ \A k \in 1..Len(out[d].ids) :
                   /\ Len(out[d].ids[k].ids) >= 1
                   /\ Len(out[d].ids[k].ids) <= num_entities_to_return
                   /\ num_entities_to_return = 1 => out[d].ids[k].single

\* the keys of self.entities_ranking_dict
RankedEntities == {"Q90", "Q1", "Q2", "Q3"}

\* the ids of a mention's sorted candidates
IdsOf(ranked) == [j \in 1..Len(ranked) |-> ranked[j].id]

\* candidate a does not come after candidate b in the descending order of
\* (substring score, popularity)
NotBelow(a, b) == a.score > b.score \/ (a.score = b.score /\ a.pop >= b.pop)

\* C17: the candidates of every mention of the document just ranked are in
\* descending order of substring score and, among equal substring scores,
\* of popularity; an entity absent from the popularity table has popularity
\* 0; and the ids handed to the reranker (or, with use_descriptions off,
\* returned) are the first ids of that order.
C17_SortedBeforeRerank ==
    /\ \A k \in 1..Len(entities_scores_list) :
           /\ \A j \in 1..Len(entities_scores_list[k]) :
                  entities_scores_list[k][j].id \notin RankedEntities
                      => entities_scores_list[k][j].pop = 0
           /\ \A j \in 1..(Len(entities_scores_list[k]) - 1) :
                  NotBelow(entities_scores_list[k][j], entities_scores_list[k][j + 1])
    /\ (doc_i >= 1 /\ fnd_batch[doc_i].substr # <<>>) =>
           IF use_descriptions
           THEN ranker_calls[Len(ranker_calls)].candidates =
                    [k \in 1..Len(entities_scores_list) |->
                        Take(IdsOf(entities_scores_list[k]), num_entities_for_bert_ranking)]
           ELSE \A k \in 1..Len(entities_scores_list) :
                    fnd_entity_ids_batch[doc_i][k].ids =
                        Take(Take(IdsOf(entities_scores_list[k]),
                                  num_entities_for_bert_ranking), num_entities_to_return)

\* a mention has been ranked and its list sent to the reranker: two of its
\* candidates have one substring score and different popularities, one is
\* absent from the popularity table, and one has a smaller substring score
\* and a larger popularity than the candidate before it
C17_Witness ==
    /\ use_descriptions
    /\ ranker_calls # <<>>
    /\ \E k \in 1..Len(entities_scores_list) :
           /\ \E j \in 1..(Len(entities_scores_list[k]) - 1) :
                  /\ entities_scores_list[k][j].score = entities_scores_list[k][j + 1].score
                  /\ entities_scores_list[k][j].pop > entities_scores_list[k][j + 1].pop
           /\ \E j \in 1..Len(entities_scores_list[k]) :
                  entities_scores_list[k][j].id \notin RankedEntities
           /\ \E j \in 1..(Len(entities_scores_list[k]) - 1) :
                  /\ entities_scores_list[k][j].score > entities_scores_list[k][j + 1].score
                  /\ entities_scores_list[k][j].pop < entities_scores_list[k][j + 1].pop

\* the forms of a word that are looked up: the word and its normal form
FormsOf(word) == {word, morph_parse(word)}

\* the index words a form is matched with, each with the similarity of the
\* match: the form itself with 1.0, or its nearest neighbours
HitsOf(idx, form) ==
    IF InIndex(idx, form) THEN {<<form, Scale>>}
    ELSE {<<word_list_of(idx)[faiss_search(form).I[j] + 1], Scale - faiss_search(form).D[j]>> :
             j \in 1..Len(faiss_search(form).I)}

\* the similarities with which a word of a mention proposes the pair
\* (entity, label length)
WordSims(idx, word, pair) ==
    {h[2] : h \in {g \in UNION {HitsOf(idx, f) : f \in FormsOf(word)} :
                      pair \in idlist_of(idx, g[1])}}

SetMax(S) == CHOOSE x \in S : \A y \in S : y <= x

\* what a word contributes to a pair: the largest of these similarities
WordSim(idx, word, pair) ==
    IF WordSims(idx, word, pair) = {} THEN 0 ELSE SetMax(WordSims(idx, word, pair))

\* the type-compatible pairs that some word of the mention proposes
PairsOf(idx, words, tag) ==
    {pair \in UNION {idlist_of(idx, word_list_of(idx)[w]) : w \in 1..Len(word_list_of(idx))} :
        /\ pair[1] \in entities_types_sets(tag) \cup entities_types_sets("AMB")
        /\ \E i \in 1..Len(words) : WordSims(idx, words[i], pair) # {}}

\* the score of a pair for a mention of the given words
PairScore(idx, words, pair) ==
    Min(SumSeq([i \in 1..Len(words) |-> WordSim(idx, words[i], pair)]), pair[2] * Scale)
        \div Max(Len(words), pair[2])

\* the entities of a mention, each with the largest score of its pairs
ExpectedScores(idx, words, tag) ==
    {<<pair[1], SetMax({PairScore(idx, words, q) :
                          q \in {r \in PairsOf(idx, words, tag) : r[1] = pair[1]}})>> :
        pair \in PairsOf(idx, words, tag)}

\* C19: the candidates of every mention of the document just ranked are the
\* entities its words propose, each with the score max over its label
\* lengths of min(S, label_len) / max(substr_len, label_len), S being the sum
\* over the mention's words of the similarity the word contributed (the
\* larger one of the word and its normal form) and substr_len the number of
\* words of the mention.
C19_SumScores ==
    (doc_i >= 1 /\ fnd_batch[doc_i].substr # <<>>) =>
        \A k \in 1..Len(entities_scores_list) :
            {<<entities_scores_list[k][j].id, entities_scores_list[k][j].score>> :
                j \in 1..Len(entities_scores_list[k])}
            = ExpectedScores(word_to_idlist, words_batch[doc_i][k], fnd_batch[doc_i].tags[k])

\* the word proposes no type-compatible entity
NoCandidateWord(idx, word, tag) == PairsOf(idx, <<word>>, tag) = {}

\* some kept word of a mention of document d proposes no type-compatible
\* entity
HasNoCandidateWord(d) ==
    \E k \in 1..Len(words_batch[d]) : \E i \in 1..Len(words_batch[d][k]) :
        NoCandidateWord(word_to_idlist, words_batch[d][k][i], fnd_batch[d].tags[k])

\* C20: link_entities raises on no document that has a kept word; and when
\* a document with a kept word that proposes no type-compatible entity has
\* been ranked, every one of its mentions has a candidate list, which holds
\* the entities the mention's own words propose, scored from the
\* contributions of its other words and its own number of words.
C20_NoCandidateWordAbsorbed ==
    /\ exc = "UnboundLocalError" =>
           \A k \in 1..Len(words_batch[doc_i + 1]) : words_batch[doc_i + 1][k] = <<>>
    /\ (doc_i >= 1 /\ fnd_batch[doc_i].substr # <<>> /\ HasNoCandidateWord(doc_i)) =>
           /\ Len(entities_scores_list) = Len(words_batch[doc_i])
           /\ \A k \in 1..Len(entities_scores_list) :
                  {<<entities_scores_list[k][j].id, entities_scores_list[k][j].score>> :
                      j \in 1..Len(entities_scores_list[k])}
                  = ExpectedScores(word_to_idlist, words_batch[doc_i][k],
                                   fnd_batch[doc_i].tags[k])

\* C21: with use_descriptions off, in the document just ranked the
\* confidence listed with the j-th id of a mention is the pair (substring
\* score, popularity score) of the j-th of the mention's sorted candidates.
C21_ConfIsScorePair ==
    (~use_descriptions /\ doc_i >= 1 /\ fnd_batch[doc_i].substr # <<>>) =>
        \A k \in 1..Len(fnd_conf_batch[doc_i]) :
            \A j \in 1..Len(fnd_conf_batch[doc_i][k].confs) :
                fnd_conf_batch[doc_i][k].confs[j] =
                    ScoreConf(<<entities_scores_list[k][j].score,
                                entities_scores_list[k][j].pop>>)

\* C22: find_labels raises nothing, and when the call has returned every
\* mention has as many labels as ids, the j-th label being the label table's
\* entry for the j-th id, or the id itself when the table has none.
C22_LabelsShapedLikeIds ==
    /\ exc # "NameError"
    /\ lpc = "done" =>
           \A d \in 1..Len(out) :
               /\ Len(out[d].labels) = Len(out[d].ids)
               /\ \A k \in 1..Len(out[d].ids) :
                      /\ Len(out[d].labels[k]) = Len(out[d].ids[k].ids)
                      /\ \A j \in 1..Len(out[d].ids[k].ids) :
                             out[d].labels[k][j] = q_to_label(out[d].ids[k].ids[j])

\* C23: during one call the reranker receives at most one request, and when
\* the call is over that request holds one candidate list for every ordinary
\* mention of the batch.
C23_OneRerankerCall ==
    /\ Len(ranker_calls) <= 1
    /\ (lpc = "done" /\ ranker_calls # <<>>) =>
           Len(ranker_calls[1].candidates) =
               SumSeq([d \in 1..Len(fnd_batch) |-> Len(fnd_batch[d].substr)])

\* C24: every candidate list of every request to the reranker holds at most
\* num_entities_for_bert_ranking ids; the lists of the request for the
\* document just ranked are the first ids of the mentions' sorted candidates;
\* and every id of a ranking made from that request's answer is the sentinel
\* or one of the ids sent for the mention.
C24_TruncatedBeforeRerank ==
    /\ \A c \in 1..Len(ranker_calls) : \A k \in 1..Len(ranker_calls[c].candidates) :
           Len(ranker_calls[c].candidates[k]) <= num_entities_for_bert_ranking
    /\ (use_descriptions /\ doc_i >= 1 /\ fnd_batch[doc_i].substr # <<>>) =>
           /\ \A k \in 1..Len(entities_scores_list) :
                  ranker_calls[Len(ranker_calls)].candidates[k] =
                      SubSeq(IdsOf(entities_scores_list[k]), 1,
                             Min(num_entities_for_bert_ranking, Len(entities_scores_list[k])))
           /\ \A k \in 1..Len(fnd_entity_ids_batch[doc_i]) :
                  \A j \in 1..Len(fnd_entity_ids_batch[doc_i][k].ids) :
                      \/ fnd_entity_ids_batch[doc_i][k].ids[j] = not_found_str
                      \/ \E i \in 1..Len(ranker_calls[Len(ranker_calls)].candidates[k]) :
                             ranker_calls[Len(ranker_calls)].candidates[k][i] =
                                 fnd_entity_ids_batch[doc_i][k].ids[j]

\* a mention with more candidates than the budget has been ranked from the
\* reranker's answer, and its ranking holds an entity
C24_Witness ==
    /\ use_descriptions
    /\ doc_i >= 1
    /\ ranker_calls # <<>>
    /\ \E k \in 1..Len(fnd_entity_ids_batch[doc_i]) :
           /\ k <= Len(entities_scores_list)
           /\ Len(entities_scores_list[k]) > num_entities_for_bert_ranking
           /\ fnd_entity_ids_batch[doc_i][k].ids # <<>>
           /\ fnd_entity_ids_batch[doc_i][k].ids[1] # not_found_str

-----------------------------------------------------------------------------
(* Properties of EntityLinkerSep.rank_by_description.                      *)

\* the loop has just finished a mention: entities_with_scores, top_entities
\* and the last entries of the result lists belong to mention rbd_i
MentionRanked == rbd_pc \in {"score", "done"} /\ rbd_i >= 1

\* (a) no candidate survives the filtering
NoneSurvives == entities_with_scores = <<>>

\* (b) a one-word mention whose top candidate has substring score < 1.0
OneWordInexact ==
    /\ entities_with_scores # <<>>
    /\ rbd_args[rbd_i].substr_len = 1
    /\ entities_with_scores[1].substr < 100

\* (c) the top candidate is below a tier of the confidence floor
BelowFloor ==
    /\ entities_with_scores # <<>>
    /\ \/ entities_with_scores[1].rerank < 11 /\ entities_with_scores[1].pop < 90
       \/ entities_with_scores[1].rerank < 13 /\ entities_with_scores[1].pop < 20
       \/ entities_with_scores[1].rerank < 30 /\ entities_with_scores[1].pop < 4

\* (d) the top candidate's substring score is below 0.3 or is 0.5
WeakSubstring ==
    /\ entities_with_scores # <<>>
    /\ \/ entities_with_scores[1].substr < 30
       \/ entities_with_scores[1].substr = 50

\* the mention's emitted ranking is the sentinel with the zero confidence
SentinelEmitted ==
    /\ entity_ids_list[rbd_i].ids = <<not_found_str>>
    /\ conf_list[rbd_i].confs = <<ZeroConf>>

\* the mention's emitted ranking is the sorted candidate list, truncated to
\* the return budget
SortedListEmitted ==
    /\ entity_ids_list[rbd_i].ids =
           Take([k \in 1..Len(entities_with_scores) |-> entities_with_scores[k].id],
                rbd_n_ret)
    /\ conf_list[rbd_i].confs =
           Take([k \in 1..Len(entities_with_scores) |->
                    ScoreConf(<<entities_with_scores[k].substr,
                                entities_with_scores[k].pop,
                                entities_with_scores[k].rerank>>)],
                rbd_n_ret)

JustScored == rbd_pc = "accept"

\* whether the unrounded rerank score x, in 1/Scale, is above 0.001
AboveThreshold(x) == 1000 * x > Scale

\* the ids of the scored candidates of the mention being ranked that have a
\* rerank score above 0.001 and an id that starts with "Q"
KeptAsStated ==
    {rbd_args[rbd_i + 1].scores[k].id : k \in
        {j \in 1..Len(rbd_args[rbd_i + 1].scores) :
            /\ AboveThreshold(rbd_args[rbd_i + 1].scores[j].score)
            /\ StartsWithQ(rbd_args[rbd_i + 1].scores[j].id)}}

\* C25: after reranking, the candidates kept are exactly those with a rerank
\* score above 0.001 and an id that starts with "Q", and they are sorted
\* descending by (substring score, rerank score, popularity score).
C25_KeptExactlyAboveThreshold ==
    JustScored =>
        /\ {entities_with_scores[k].id : k \in 1..Len(entities_with_scores)} = KeptAsStated
        /\ \A k \in 1..(Len(entities_with_scores) - 1) :
               ~TupleGreater(<<entities_with_scores[k + 1].substr,
                               entities_with_scores[k + 1].rerank,
                               entities_with_scores[k + 1].pop>>,
                             <<entities_with_scores[k].substr,
                               entities_with_scores[k].rerank,
                               entities_with_scores[k].pop>>)

-----------------------------------------------------------------------------
(* Properties of NerChunker.__call__.                                      *)

\* C8: every chunk appended to text_batch, and so every chunk returned, has
\* a tokenized length of at most max_seq_len.
C8_ChunksWithinSeqLen ==
    /\ \A k \in 1..Len(text_batch) : TokLen(text_batch[k]) <= max_seq_len
    /\ cpc = "done" =>
           \A b \in 1..Len(chunker_out.text_batch_list) :
               \A k \in 1..Len(chunker_out.text_batch_list[b]) :
                   TokLen(chunker_out.text_batch_list[b][k]) <= max_seq_len

\* the sentence is taken up by the chunker, has no comma, and has at least
\* max_seq_len tokens
LongPlainSentence(sentence) ==
    /\ TokLen(sentence) >= max_seq_len
    /\ \A i \in 1..Len(sentence) : sentence[i] # ","

\* C9: a call on a document holding a sentence without comma of at least
\* max_seq_len tokens does not raise, and when it has returned the document
\* has at least 2 chunks, the ones of the hard split holding at most
\* max_chunk_len words.
C9_HardSplitReturns ==
    \A d \in 1..Len(docs_batch) :
        (\E k \in 1..Len(SentencesOf(docs_batch[d])) :
            LongPlainSentence(SentencesOf(docs_batch[d])[k])) =>
            /\ cpc # "raised"
            /\ chunker_exc = "none"
            /\ cpc = "done" =>
                   /\ Cardinality({k \in 1..Len(nums_batch) : nums_batch[k] = d - 1}) >= 2
                   /\ \E k \in 1..Len(nums_batch) :
                          /\ nums_batch[k] = d - 1
                          /\ Len(Words(text_batch[k])) <= max_chunk_len

\* a text without its whitespace and commas, which the chunker strips and
\* puts back
Essence(s) == SelectSeq(s, LAMBDA c : c \notin {" ", "\n", ","})

\* the texts of the chunks emitted for document number num, in order
TextOfChunks(num) ==
    Flatten([k \in 1..Len(text_batch) |->
                IF nums_batch[k] = num THEN text_batch[k] ELSE <<>>])

\* the paragraphs of a document, each without what sanitize trims
TrimmedText(doc) ==
    Flatten([k \in 1..Len(StrSplit(doc, <<"\n">>)) |->
                sanitize(StrSplit(doc, <<"\n">>)[k])])

\* C15: when the call has returned, the chunks of every document, put
\* together in order, are the document's trimmed paragraphs, whitespace and
\* commas aside: nothing is dropped and nothing is emitted twice.
C15_NoTextLost ==
    cpc = "done" =>
        \A d \in 1..Len(docs_batch) :
            Essence(TextOfChunks(d - 1)) = Essence(TrimmedText(docs_batch[d]))

\* the paragraphs of a document
Paragraphs(doc) == StrSplit(doc, <<"\n">>)

\* the paragraph is empty, or sanitize leaves at most one character of it
\* (sanitize never trims the first character)
TrimmedAway(piece) == Len(sanitize(piece)) <= 1

\* C18: no chunk of text_batch, and no chunk of the returned batches, has an
\* empty text; and when the call has returned, a document all of whose
\* paragraphs are empty or trimmed away by sanitize has no chunk.
C18_NoEmptyChunk ==
    /\ \A k \in 1..Len(text_batch) : text_batch[k] # <<>>
    /\ cpc = "done" =>
           /\ \A jj \in 1..Len(chunker_out.text_batch_list) :
                  \A k \in 1..Len(chunker_out.text_batch_list[jj]) :
                      chunker_out.text_batch_list[jj][k] # <<>>
           /\ \A d \in 1..Len(docs_batch) :
                  (\A p \in 1..Len(Paragraphs(docs_batch[d])) :
                       TrimmedAway(Paragraphs(docs_batch[d])[p]))
                  => \A k \in 1..Len(nums_batch) : nums_batch[k] # d - 1

\* the call has returned for a batch in which one document consists of a
\* paragraph that sanitize trims away and has no chunk, and another document
\* has a chunk
C18_Witness ==
    /\ cpc = "done"
    /\ text_batch # <<>>
    /\ \E d \in 1..Len(docs_batch) :
           /\ docs_batch[d] # <<>>
           /\ \A p \in 1..Len(Paragraphs(docs_batch[d])) :
                  TrimmedAway(Paragraphs(docs_batch[d])[p])
           /\ \A k \in 1..Len(nums_batch) : nums_batch[k] # d - 1

-----------------------------------------------------------------------------
(* Properties of the merge of chunks into documents.                       *)

\* the length consumed by the chunks of asm_chunks before chunk k that
\* belong to the document of chunk k
RECURSIVE ConsumedBefore(_, _)
ConsumedBefore(k, j) ==
    IF j = 0 THEN 0
    ELSE ConsumedBefore(k, j - 1)
         + (IF asm_chunks[j].doc_num = asm_chunks[k].doc_num
            THEN Consumed(asm_class, asm_chunks[j].text_len) ELSE 0)

\* the chunks of document number d, in order
ChunksOfDoc(d) == SelectSeq(Idx(Len(asm_chunks)), LAMBDA k : asm_chunks[k].doc_num = d)

\* the mentions' positions of document d, every chunk's positions shifted by
\* the length consumed by the earlier chunks of d
ShiftedPositionsOf(d) ==
    Flatten([i \in 1..Len(ChunksOfDoc(d)) |->
                Shifted(asm_chunks[ChunksOfDoc(d)[i]].entity_offsets,
                        ConsumedBefore(ChunksOfDoc(d)[i], ChunksOfDoc(d)[i] - 1))])

\* the sentences' spans of document d, shifted likewise
ShiftedSpansOf(d) ==
    Flatten([i \in 1..Len(ChunksOfDoc(d)) |->
                Shifted(asm_chunks[ChunksOfDoc(d)[i]].sentences_offsets,
                        ConsumedBefore(ChunksOfDoc(d)[i], ChunksOfDoc(d)[i] - 1))])

\* C10: when the merge has returned, every document that has chunks has an
\* entry in the returned batches whose positions are the chunks' positions,
\* each shifted by the total consumed length of the earlier chunks of the
\* same document.
C10_ShiftByEarlierChunks ==
    asm_pc = "done" =>
        \A k \in 1..Len(asm_chunks) :
            \E i \in 1..Len(doc_entity_offsets_batch) :
                /\ doc_entity_offsets_batch[i] = ShiftedPositionsOf(asm_chunks[k].doc_num)
                /\ doc_sentences_offsets_batch[i] = ShiftedSpansOf(asm_chunks[k].doc_num)

\* the mentions' names and tags of document d: those of its chunks, in order
MentionsOfDoc(d) ==
    [substr |-> Flatten([i \in 1..Len(ChunksOfDoc(d)) |->
                            asm_chunks[ChunksOfDoc(d)[i]].entity_substr]),
     tags   |-> Flatten([i \in 1..Len(ChunksOfDoc(d)) |->
                            asm_chunks[ChunksOfDoc(d)[i]].tags])]

\* C11: when the merge has returned, the returned batches have one entry
\* per input document, and the entry of document d holds the mentions and
\* tags of the chunks of document d (none for a document without chunk).
C11_OneEntryPerDocument ==
    asm_pc = "done" =>
        /\ Len(doc_entity_substr_batch) = asm_n_docs
        /\ Len(doc_tags_batch) = asm_n_docs
        /\ Len(doc_entity_offsets_batch) = asm_n_docs
        /\ Len(doc_sentences_offsets_batch) = asm_n_docs
        /\ \A d \in 0..(asm_n_docs - 1) :
               /\ doc_entity_substr_batch[d + 1] = MentionsOfDoc(d).substr
               /\ doc_tags_batch[d + 1] = MentionsOfDoc(d).tags

\* the spans and the sentences recorded for the k-th emitted chunk
SpansOf(k) == lists_heap[sentences_offsets_batch[k]].offsets
SentencesOfChunk(k) == lists_heap[sentences_offsets_batch[k]].sentences

\* C26: for every emitted chunk, every recorded span (start, end) satisfies
\* 0 <= start <= end <= len(chunk text), and the chunk's text between start
\* and end is the sentence recorded with the span.
C26_SpansIndexChunkText ==
    \A k \in 1..Len(text_batch) :
        /\ Len(SpansOf(k)) = Len(SentencesOfChunk(k))
        /\ \A j \in 1..Len(SpansOf(k)) :
               /\ 0 <= SpansOf(k)[j][1]
               /\ SpansOf(k)[j][1] <= SpansOf(k)[j][2]
               /\ SpansOf(k)[j][2] <= Len(text_batch[k])
               /\ SubSeq(text_batch[k], SpansOf(k)[j][1] + 1, SpansOf(k)[j][2]) =
                      SentencesOfChunk(k)[j]

\* every chunk emitted so far is afterwards what it was: its text, its
\* document index, its spans and its sentences
EmittedChunksKept ==
    \A k \in 1..Len(text_batch) :
        /\ k <= Len(text_batch')
        /\ text_batch'[k] = text_batch[k]
        /\ nums_batch'[k] = nums_batch[k]
        /\ lists_heap'[sentences_offsets_batch'[k]].offsets = SpansOf(k)
        /\ lists_heap'[sentences_offsets_batch'[k]].sentences = SentencesOfChunk(k)

\* C27: no step of NerChunker.__call__ changes the text, the sentence spans,
\* the sentence texts or the document index of a chunk emitted before it.
C27_EmittedChunksUnchanged == [][EmittedChunksKept]_vars

\* the batches of the four returned arrays
TextBatches == chunker_out.text_batch_list
NumsBatches == chunker_out.nums_batch_list
SpansBatches == chunker_out.sentences_offsets_batch_list
SentencesBatches == chunker_out.sentences_batch_list

\* C28: when NerChunker.__call__ returns, every batch has between 1 and
\* batch_size chunks and every batch but the last exactly batch_size; the four
\* arrays have the same number of batches and the same number of chunks in
\* each batch, and a chunk has as many spans as sentences; the batches
\* concatenated are the chunks in the order of their production; and the
\* document indices never decrease.
C28_RebatchAligned ==
    cpc = "done" =>
        /\ \A b \in 1..Len(TextBatches) :
               /\ Len(TextBatches[b]) \in 1..batch_size
               /\ b < Len(TextBatches) => Len(TextBatches[b]) = batch_size
        /\ Len(NumsBatches) = Len(TextBatches)
        /\ Len(SpansBatches) = Len(TextBatches)
        /\ Len(SentencesBatches) = Len(TextBatches)
        /\ \A b \in 1..Len(TextBatches) :
               /\ Len(NumsBatches[b]) = Len(TextBatches[b])
               /\ Len(SpansBatches[b]) = Len(TextBatches[b])
               /\ Len(SentencesBatches[b]) = Len(TextBatches[b])
               /\ \A k \in 1..Len(TextBatches[b]) :
                      Len(SpansBatches[b][k]) = Len(SentencesBatches[b][k])
        /\ Flatten(TextBatches) = text_batch
        /\ Flatten(NumsBatches) = nums_batch
        /\ Flatten(SpansBatches) = [k \in 1..Len(text_batch) |-> SpansOf(k)]
        /\ Flatten(SentencesBatches) = [k \in 1..Len(text_batch) |-> SentencesOfChunk(k)]
        /\ \A k \in 1..(Len(nums_batch) - 1) : nums_batch[k] <= nums_batch[k + 1]

\* C28 witness: a call has returned three chunks of two documents in batches
\* of two: a full batch and a last batch of one chunk
C28_Witness ==
    /\ cpc = "done"
    /\ batch_size = 2
    /\ Len(text_batch) = 3
    /\ Len(TextBatches) = 2
    /\ Len(TextBatches[2]) = 1
    /\ NumsBatches = <<<<0, 0>>, <<1>>>>

\* C29: every substring score sum_scores returns lies between 0 and 1, and
\* the divisor of line 637 is never zero.
C29_ScoresInUnitInterval ==
    /\ Max(fus_substr_len, fus_label_len) > 0 \/ fus_pc = "off"
    /\ \A k \in 1..Len(fus_scores) :
           0 <= fus_scores[k].score /\ fus_scores[k].score <= Scale

\* the loop of the context has been entered for a sentence that was found
InParagraph == full_paragraph /\ ctx_pc \in {"extend", "done"} /\ found_sentence # <<>>

\* the part of the context made from the mention's own sentence
OwnPart == ctx_context[found_sentence_num - first_sentence_num + 1]

\* the parts of the context are the sentences from first_sentence_num to
\* last_sentence_num, a run that holds the mention's sentence
ContiguousRun ==
    /\ 0 <= first_sentence_num
    /\ first_sentence_num <= found_sentence_num
    /\ found_sentence_num <= last_sentence_num
    /\ last_sentence_num < Len(ctx_sentences_list)
    /\ Len(ctx_context) = last_sentence_num - first_sentence_num + 1
    /\ \A k \in 1..Len(ctx_context) :
           k # found_sentence_num - first_sentence_num + 1 =>
               ctx_context[k] = ctx_sentences_list[first_sentence_num + k]

\* the running count is the token count of the joined context, and it is
\* below max_paragraph_len once a neighbour has been added and whenever the
\* mention's own part is below it
WithinParagraphLen ==
    /\ cur_sent_len = ReTokLen(Join(ctx_context, <<" ">>))
    /\ Len(ctx_context) > 1 => cur_sent_len < max_paragraph_len
    /\ ReTokLen(OwnPart) < max_paragraph_len =>
           ReTokLen(Join(ctx_context, <<" ">>)) < max_paragraph_len

\* C30: with full_paragraph on, the loop that extends the context ends; the
\* parts it joins are a contiguous run of the document's sentences holding
\* the mention's sentence; a neighbour is added only when the running token
\* count with its tokens is below max_paragraph_len; and the token count of
\* the context is below max_paragraph_len whenever that of the mention's own
\* clipped sentence is.
C30_ContextExtension ==
    /\ <>(ctx_pc = "done")
    /\ [](InParagraph =>
             /\ ContiguousRun
             /\ WithinParagraphLen
             /\ ctx_pc = "done" => ctx_result = Join(ctx_context, <<" ">>))

\* C30 witness: the context of a mention in the second of three sentences
\* has been joined from its own sentence and the sentence after it; the
\* sentence before it had no room
C30_Witness ==
    /\ full_paragraph
    /\ ctx_pc = "done"
    /\ found_sentence_num = 1
    /\ first_sentence_num = 1
    /\ last_sentence_num = 2
    /\ cur_sent_len + ReTokLen(ctx_sentences_list[1]) = max_paragraph_len

====
